---- MODULE Spec2Model ----
(***************************************************************************)
(* Enhanced Custom CSS: the @add directive pipeline (script/CSS splitter,  *)
(* directive parser, position translator, command executor) and the host   *)
(* handlers that drive it, in the modular version (index.js, core.js,      *)
(* cssProcessor.js) and in the legacy single-file script; the interface   *)
(* of CoreModule (both versions of it) with the font style of the          *)
(* FontManager; the theme watchers with their timers; Storage over         *)
(* localStorage; and the font list of the FontManager.                     *)
(*                                                                         *)
(* Strings are sequences of one-character strings, so that the regular     *)
(* expressions and the String methods of the source are computed character *)
(* by character.                                                           *)
(***************************************************************************)
EXTENDS Integers, Sequences, FiniteSets, TLC

VARIABLES
    text,      \* the text under test: a function argument, or the textarea value
    nfrag,     \* how many fragments were typed into text, or how many events were handled
    out,       \* the result of the last function applied to text, or of the last pass
    variant,   \* which version is loaded: "modular" (index.js), "legacy" (the script),
               \* or "early" (the first CoreModule)
    settings,  \* settings of the extension
    ext,       \* EnhancedCustomCSSPlus: lastProcessedContent, currentCSSContent, and
               \* its FontManager's fontEnabled, currentFont, fonts and tags
    core,      \* the cleanup tracker: addedElements, addedStyles, addedClasses,
               \* modifiedElements, isClearing, elementIdCounter
    document,  \* the page: head, the children, the inline position and the added
               \* classes of its elements
    storage    \* the Storage instance: its cache, and localStorage behind it

host == <<variant, settings, ext, core, document, storage>>

vars == <<text, nfrag, out, variant, settings, ext, core, document, storage>>

----------------------------------------------------------------------------
(* Bounds *)

MaxPosFrags == 4

MaxSplitFrags == 5

MaxAddFrags == 4

MaxEvents == 4

MaxCalls == 3

MaxThemeEvents == 3

MaxTicks == 6

\* what localStorage holds before setItem throws QuotaExceededError, in the
\* unit in which the size of a value is given
Quota == 8

----------------------------------------------------------------------------
(* The page and the state after construction *)

\* null, as distinct from every string
Null == <<"null">>

\* the elements of the page that selectors can match, in document order
ElementOrder == <<"e1", "e2", "e3">>

Elements == {ElementOrder[i] : i \in 1..Len(ElementOrder)}

\* the class attribute of each element
classOf == [e1 |-> <<"c">>, e2 |-> <<"c">>, e3 |-> <<"d">>]

\* the position the page's own stylesheets give each element
pagePosition == [e1 |-> "static", e2 |-> "absolute", e3 |-> "static"]

\* head holds the <style> elements of the extension; nextNode is the identity
\* of the next element that document.createElement returns; classList holds
\* the classes added to an element; now is what Date.now() returns; timers
\* holds the pending timeouts of the window, nextTimer the id that the next
\* setTimeout returns, lastFired the id of the timeout that ran last; injected
\* remembers, for each style id, the css of the latest <style> appended under it
EmptyDocument ==
    [head |-> <<>>,
     children |-> [e \in Elements |-> <<>>],
     position |-> [e \in Elements |-> ""],
     classList |-> [e \in Elements |-> {}],
     nextNode |-> 1,
     now |-> 0,
     timers |-> {},
     nextTimer |-> 1,
     lastFired |-> 0,
     injected |-> {}]

\* new CoreModule(), and the legacy script's addedStyles = [], addedElements = []
EmptyCore ==
    [addedElements |-> {}, addedStyles |-> {}, addedClasses |-> {},
     modifiedElements |-> {}, isClearing |-> FALSE, elementIdCounter |-> 0]

\* the fonts the FontManager holds once init has loaded them: one with an url
\* and a family, one with css of its own
fonts ==
    {[name |-> <<"f">>, url |-> "u", fontFamily |-> "F", css |-> "", tags |-> {}],
     [name |-> <<"g">>, url |-> "", fontFamily |-> "G", css |-> "body{font-family:G}",
      tags |-> {}]}

\* a function with no argument: an empty Map, an empty localStorage
NoItems == [x \in {} |-> x]

\* new Storage(namespace) over an empty localStorage
EmptyStorage == [localStorage |-> NoItems, cache |-> NoItems]

\* new EnhancedCustomCSSPlus() with its new FontManager()
NewExtension ==
    [currentCSSContent |-> <<>>, lastProcessedContent |-> Null,
     currentTheme |-> Null, themeChangeTimeout |-> 0, lastTrigger |-> 0,
     fontEnabled |-> TRUE, currentFont |-> Null,
     fonts |-> {}, tags |-> {}]

\* the state after construction of version v, nothing applied yet
constructed(v) ==
    /\ variant = v
    /\ settings = [enabled |-> TRUE, autoCleanOnThemeChange |-> TRUE]
    /\ ext = [NewExtension EXCEPT !.fonts = fonts]
    /\ core = EmptyCore
    /\ document = EmptyDocument
    /\ storage = EmptyStorage

----------------------------------------------------------------------------
(* String primitives of the host language *)

Min(S) == CHOOSE x \in S : \A y \in S : x <= y

IsSpace(c) == c \in {" ", "\n", "\t"}

\* pat occurs in s at index i
MatchAt(s, pat, i) ==
    /\ i >= 1
    /\ i + Len(pat) - 1 <= Len(s)
    /\ \A k \in 1..Len(pat) : s[i + k - 1] = pat[k]

\* least index >= from at which pat occurs in s, 0 when there is none
IndexFrom(s, pat, from) ==
    LET I == {i \in from..(Len(s) - Len(pat) + 1) : MatchAt(s, pat, i)}
    IN  IF I = {} THEN 0 ELSE Min(I)

IndexOf(s, pat) == IndexFrom(s, pat, 1)

Includes(s, pat) == IndexOf(s, pat) # 0

StartsWith(s, pat) == MatchAt(s, pat, 1)

\* String.prototype.replace with a string pattern: the first occurrence only
ReplaceFirst(s, pat, rep) ==
    LET i == IndexOf(s, pat)
    IN  IF i = 0 THEN s
        ELSE SubSeq(s, 1, i - 1) \o rep \o SubSeq(s, i + Len(pat), Len(s))

\* the index of the first character at or after i that is no whitespace
RECURSIVE SkipSpace(_, _)
SkipSpace(s, i) ==
    IF i > Len(s) \/ ~IsSpace(s[i]) THEN i ELSE SkipSpace(s, i + 1)

\* the index of the last character at or before j that is no whitespace
RECURSIVE SkipSpaceBack(_, _)
SkipSpaceBack(s, j) ==
    IF j < 1 \/ ~IsSpace(s[j]) THEN j ELSE SkipSpaceBack(s, j - 1)

\* String.prototype.trim
Trim(s) == SubSeq(s, SkipSpace(s, 1), SkipSpaceBack(s, Len(s)))

\* String.prototype.slice(from0, -1) with a 0-based start
SliceDropLast(s, from0) == SubSeq(s, from0 + 1, Len(s) - 1)

----------------------------------------------------------------------------
(* Position translator *)

kwTop == <<"t","o","p">>
kwBottom == <<"b","o","t","t","o","m">>
kwLeft == <<"l","e","f","t">>
kwRight == <<"r","i","g","h","t">>
kwCenter == <<"c","e","n","t","e","r">>
sDash == <<"-">>
sDashDash == <<"-","-">>
sNEG == <<"N","E","G">>
sZero == <<"0">>
sFiftyPercent == <<"5","0","%">>
sTranslate == <<"t","r","a","n","s","l","a","t","e","(","-","5","0","%",","," ","-","5","0","%",")">>

\* the empty style object {}
EmptyStyle == <<>>

\* pos.replace('<kw>-', '').replace('<kw>', '0'), then .replace('NEG', '-')
sideValue(pos, kw) ==
    ReplaceFirst(ReplaceFirst(ReplaceFirst(pos, kw \o sDash, <<>>), kw, sZero), sNEG, sDash)

centerStyle ==
    [left |-> sFiftyPercent, top |-> sFiftyPercent, transform |-> sTranslate]

\* a variant that tests bottom before top
parsePosition_bottomFirst(pos0) ==
    IF pos0 = <<>> THEN EmptyStyle
    ELSE LET pos == ReplaceFirst(pos0, sDashDash, sNEG)
         IN  IF Includes(pos, kwBottom) THEN [bottom |-> sideValue(pos, kwBottom)]
             ELSE IF Includes(pos, kwTop) THEN [top |-> sideValue(pos, kwTop)]
             ELSE IF Includes(pos, kwLeft) THEN [left |-> sideValue(pos, kwLeft)]
             ELSE IF Includes(pos, kwRight) THEN [right |-> sideValue(pos, kwRight)]
             ELSE IF Includes(pos, kwCenter) THEN centerStyle
             ELSE EmptyStyle

\* CSSProcessor.parsePosition
parsePosition(pos0) ==
    IF pos0 = <<>> THEN EmptyStyle
    ELSE LET pos == ReplaceFirst(pos0, sDashDash, sNEG)
         IN  IF Includes(pos, kwTop) THEN [top |-> sideValue(pos, kwTop)]
             ELSE IF Includes(pos, kwBottom) THEN [bottom |-> sideValue(pos, kwBottom)]
             ELSE IF Includes(pos, kwLeft) THEN [left |-> sideValue(pos, kwLeft)]
             ELSE IF Includes(pos, kwRight) THEN [right |-> sideValue(pos, kwRight)]
             ELSE IF Includes(pos, kwCenter) THEN centerStyle
             ELSE EmptyStyle

\* parseAdvancedPosition of the legacy script: no center shortcut
parseAdvancedPosition(pos0) ==
    IF pos0 = <<>> THEN EmptyStyle
    ELSE LET pos == ReplaceFirst(pos0, sDashDash, sNEG)
         IN  IF Includes(pos, kwTop) THEN [top |-> sideValue(pos, kwTop)]
             ELSE IF Includes(pos, kwBottom) THEN [bottom |-> sideValue(pos, kwBottom)]
             ELSE IF Includes(pos, kwLeft) THEN [left |-> sideValue(pos, kwLeft)]
             ELSE IF Includes(pos, kwRight) THEN [right |-> sideValue(pos, kwRight)]
             ELSE EmptyStyle

----------------------------------------------------------------------------
(* The position translator applied to typed tokens *)

NoResult == [fn |-> "none"]

PosFrags ==
    {kwTop, kwBottom, kwLeft, kwRight, kwCenter, sDash, sNEG, <<"5">>, <<"p","x">>}

InitPos ==
    /\ text = <<>>
    /\ nfrag = 0
    /\ out = NoResult
    /\ constructed("modular")

\* the user extends the token by one fragment
TypeToken ==
    /\ nfrag < MaxPosFrags
    /\ \E f \in PosFrags : text' = text \o f
    /\ nfrag' = nfrag + 1
    /\ UNCHANGED host
    /\ out' = NoResult

CallParsePosition ==
    /\ out = NoResult
    /\ out' = [fn |-> "parsePosition", arg |-> text, style |-> parsePosition(text)]
    /\ UNCHANGED <<text, nfrag, host>>

CallParseAdvancedPosition ==
    /\ out = NoResult
    /\ out' = [fn |-> "parseAdvancedPosition", arg |-> text,
               style |-> parseAdvancedPosition(text)]
    /\ UNCHANGED <<text, nfrag, host>>

NextPos == TypeToken \/ CallParsePosition \/ CallParseAdvancedPosition

SpecPos == InitPos /\ [][NextPos]_vars

----------------------------------------------------------------------------
(* Claims about the position translator *)

SideKeywords == {kwTop, kwBottom, kwLeft, kwRight}

\* the single-entry style {<keyword>: v}
Single(kw, v) ==
    CASE kw = kwTop -> [top |-> v]
      [] kw = kwBottom -> [bottom |-> v]
      [] kw = kwLeft -> [left |-> v]
      [] kw = kwRight -> [right |-> v]

\* the text of tok after its first n characters
After(tok, n) == SubSeq(tok, n + 1, Len(tok))

ContainsKeyword(v) ==
    \E kw \in SideKeywords \cup {kwCenter} : Includes(v, kw)

PositionTranslated == out.fn \in {"parsePosition", "parseAdvancedPosition"}

\* C2: for every keyword k of top, bottom, left, right and every value v, the
\* token k--v translates to the single-entry mapping {k: "-v"}.
C2_DoubleHyphenIsNegative ==
    PositionTranslated =>
        \A kw \in SideKeywords :
            StartsWith(out.arg, kw \o sDashDash) =>
                out.style = Single(kw, sDash \o After(out.arg, Len(kw) + 2))

\* C9: for every keyword k of top, bottom, left, right and every value v with
\* no keyword and no double hyphen in it, the token k-v translates to {k: v},
\* and the bare token k translates to {k: "0"}.
C9_KeywordAndHyphenStripped ==
    PositionTranslated =>
        \A kw \in SideKeywords :
            /\ out.arg = kw => out.style = Single(kw, sZero)
            /\ StartsWith(out.arg, kw \o sDash) =>
                  LET v == After(out.arg, Len(kw) + 1)
                  IN  (~ContainsKeyword(v) /\ ~Includes(v, sDashDash)) =>
                          out.style = Single(kw, v)

\* the first of top, bottom, left, right, center that occurs in the token
FirstKeyword(tok) ==
    IF Includes(tok, kwTop) THEN "top"
    ELSE IF Includes(tok, kwBottom) THEN "bottom"
    ELSE IF Includes(tok, kwLeft) THEN "left"
    ELSE IF Includes(tok, kwRight) THEN "right"
    ELSE IF Includes(tok, kwCenter) THEN "center"
    ELSE "none"

\* C10: parsePosition recognises exactly the first keyword (in the order top,
\* bottom, left, right, center) occurring in the token: {} when none occurs,
\* the fixed centering style when it is center, otherwise exactly one entry,
\* keyed by that keyword.
C10_FirstKeywordWins ==
    out.fn = "parsePosition" =>
        LET kw == FirstKeyword(out.arg)
        IN  /\ kw = "none" => out.style = EmptyStyle
            /\ kw = "center" =>
                  out.style = [left |-> sFiftyPercent, top |-> sFiftyPercent,
                               transform |-> sTranslate]
            /\ kw \notin {"none", "center"} => DOMAIN out.style = {kw}

\* a token that starts with bottom and also holds top was translated to a top entry
C10_Witness ==
    /\ out.fn = "parsePosition"
    /\ StartsWith(out.arg, kwBottom)
    /\ Includes(out.arg, kwTop)
    /\ DOMAIN out.style = {"top"}

----------------------------------------------------------------------------
(* Script/CSS splitter *)

sScriptOpen == <<"<","s","c","r","i","p","t">>
sScriptClose == <<"<","/","s","c","r","i","p","t",">">>
sGt == <<">">>
sNewline == <<"\n">>

\* the i flag of the script pattern, on the letters the pattern holds
LowerChar(c) ==
    CASE c = "S" -> "s" [] c = "C" -> "c" [] c = "R" -> "r"
      [] c = "I" -> "i" [] c = "P" -> "p" [] c = "T" -> "t"
      [] OTHER -> c

\* pat (in lower case) occurs in s at index i, letter case ignored
MatchAtCI(s, pat, i) ==
    /\ i >= 1
    /\ i + Len(pat) - 1 <= Len(s)
    /\ \A k \in 1..Len(pat) : LowerChar(s[i + k - 1]) = pat[k]

IndexFromCI(s, pat, from) ==
    LET I == {i \in from..(Len(s) - Len(pat) + 1) : MatchAtCI(s, pat, i)}
    IN  IF I = {} THEN 0 ELSE Min(I)

NoMatch == [found |-> FALSE]

\* /<script[^>]*>([\s\S]*?)<\/script>/gi tried at start index st: the greedy
\* [^>]* stops at the first ">", the lazy body at the first closing tag
scriptMatchAt(content, st) ==
    IF ~MatchAtCI(content, sScriptOpen, st) THEN NoMatch
    ELSE LET g == IndexFrom(content, sGt, st + Len(sScriptOpen))
         IN  IF g = 0 THEN NoMatch
             ELSE LET c == IndexFromCI(content, sScriptClose, g + 1)
                  IN  IF c = 0 THEN NoMatch
                      ELSE [found |-> TRUE, start |-> st,
                            end |-> c + Len(sScriptClose) - 1,
                            all |-> SubSeq(content, st, c + Len(sScriptClose) - 1),
                            body |-> SubSeq(content, g + 1, c - 1)]

\* scriptRegex.exec(content) with lastIndex = from - 1: the leftmost start
\* index at which the pattern matches
scriptExec(content, from) ==
    LET S == {st \in from..Len(content) :
                 MatchAtCI(content, sScriptOpen, st) /\ scriptMatchAt(content, st).found}
    IN  IF S = {} THEN NoMatch ELSE scriptMatchAt(content, Min(S))

\* the while loop of the splitter: css and javascript after every match
RECURSIVE scriptLoop(_, _, _, _)
scriptLoop(content, from, css, javascript) ==
    LET m == scriptExec(content, from)
    IN  IF ~m.found THEN [css |-> css, javascript |-> javascript]
        ELSE scriptLoop(content, m.end + 1,
                        ReplaceFirst(css, m.all, <<>>),
                        javascript \o m.body \o sNewline)

\* a splitter that returns css untrimmed
extractJavaScript_noTrim(content) ==
    LET r == scriptLoop(content, 1, content, <<>>)
    IN  [css |-> r.css, javascript |-> Trim(r.javascript)]

\* CSSProcessor.extractJavaScript
extractJavaScript(content) ==
    LET r == scriptLoop(content, 1, content, <<>>)
    IN  [css |-> Trim(r.css), javascript |-> Trim(r.javascript)]

\* parseContent of the legacy script
parseContent(content) ==
    LET r == scriptLoop(content, 1, content, <<>>)
    IN  [css |-> Trim(r.css), javascript |-> Trim(r.javascript)]

----------------------------------------------------------------------------
(* The splitter applied to typed text *)

SplitFrags ==
    { <<"<","s","c","r">>,
      <<"<","s","c","r","i","p","t",">","a","<","/","s","c","r","i","p","t",">">>,
      <<"i","p","t",">","a","<","/","s","c","r","i","p","t",">">>,
      <<" ","M">>,
      <<"<","S","c","r","i","p","t",">","u">> }

InitSplit ==
    /\ text = <<>>
    /\ nfrag = 0
    /\ out = NoResult
    /\ constructed("modular")

\* the user extends the text by one fragment
TypeSplitText ==
    /\ nfrag < MaxSplitFrags
    /\ \E f \in SplitFrags : text' = text \o f
    /\ nfrag' = nfrag + 1
    /\ UNCHANGED host
    /\ out' = NoResult

CallExtractJavaScript ==
    /\ out = NoResult
    /\ LET r == extractJavaScript(text)
       IN  out' = [fn |-> "extractJavaScript", arg |-> text,
                   css |-> r.css, javascript |-> r.javascript]
    /\ UNCHANGED <<text, nfrag, host>>

CallParseContent ==
    /\ out = NoResult
    /\ LET r == parseContent(text)
       IN  out' = [fn |-> "parseContent", arg |-> text,
                   css |-> r.css, javascript |-> r.javascript]
    /\ UNCHANGED <<text, nfrag, host>>

NextSplit == TypeSplitText \/ CallExtractJavaScript \/ CallParseContent

SpecSplit == InitSplit /\ [][NextSplit]_vars

----------------------------------------------------------------------------
(* Claims about the splitter *)

\* the matches of the script pattern in content, in input order
RECURSIVE scriptMatches(_, _)
scriptMatches(content, from) ==
    LET m == scriptExec(content, from)
    IN  IF ~m.found THEN <<>> ELSE <<m>> \o scriptMatches(content, m.end + 1)

\* content without the characters at the positions of the matches ms
WithoutSpans(content, ms) ==
    LET keep == {i \in 1..Len(content) :
                    \A k \in 1..Len(ms) : i < ms[k].start \/ i > ms[k].end}
        F[i \in 0..Len(content)] ==
            IF i = 0 THEN <<>>
            ELSE IF i \in keep THEN Append(F[i - 1], content[i]) ELSE F[i - 1]
    IN  F[Len(content)]

\* the bodies of the matches ms joined by newline
RECURSIVE JoinBodies(_)
JoinBodies(ms) ==
    IF ms = <<>> THEN <<>>
    ELSE IF Len(ms) = 1 THEN ms[1].body
    ELSE ms[1].body \o sNewline \o JoinBodies(Tail(ms))

Split == out.fn \in {"extractJavaScript", "parseContent"}

\* C7: the splitter returns css equal to the input with every matched script
\* block removed at its matched position, then trimmed, and script equal to
\* the matched bodies in input order joined by newline, then trimmed; text
\* after an unterminated script tag stays in css.
C7_BlocksRemovedInPlace ==
    Split =>
        LET ms == scriptMatches(out.arg, 1)
        IN  /\ out.css = Trim(WithoutSpans(out.arg, ms))
            /\ out.javascript = Trim(JoinBodies(ms))

\* C8: the css returned by the splitter holds no complete script block, so
\* the splitter applied to its own css extracts nothing and returns it as is.
C8_CssHoldsNoScriptBlock ==
    Split =>
        /\ ~scriptExec(out.css, 1).found
        /\ extractJavaScript(out.css) = [css |-> out.css, javascript |-> <<>>]

----------------------------------------------------------------------------
(* Directive parser *)

sAdd == <<"@","a","d","d",":">>
sUrlOpen == <<"u","r","l","(">>
sQuote == <<"\"">>
sOpenBrace == <<"{">>
sCloseBrace == <<"}">>

\* [a-zA-Z0-9_-]
ClassChars ==
    {"a", "b", "c", "d", "e", "f", "g", "h", "i", "j", "k", "l", "m",
     "n", "o", "p", "q", "r", "s", "t", "u", "v", "w", "x", "y", "z",
     "A", "B", "C", "D", "E", "F", "G", "H", "I", "J", "K", "L", "M",
     "N", "O", "P", "Q", "R", "S", "T", "U", "V", "W", "X", "Y", "Z",
     "0", "1", "2", "3", "4", "5", "6", "7", "8", "9", "_", "-"}

IsClassChar(c) == c \in ClassChars

\* [^\s;]
IsParamChar(c) == ~IsSpace(c) /\ c # ";"

\* the index after the longest run of [a-zA-Z0-9_-] that starts at i
RECURSIVE SkipClass(_, _)
SkipClass(s, i) ==
    IF i > Len(s) \/ ~IsClassChar(s[i]) THEN i ELSE SkipClass(s, i + 1)

\* the index after the longest run of [^\s;] that starts at i
RECURSIVE SkipParam(_, _)
SkipParam(s, i) ==
    IF i > Len(s) \/ ~IsParamChar(s[i]) THEN i ELSE SkipParam(s, i + 1)

\* /([^{]+)\s*\{([^}]*)\}/g tried at start index st: the greedy selector runs
\* to the first "{", the greedy body to the first "}" after it
ruleMatchAt(css, st) ==
    IF st > Len(css) \/ css[st] = "{" THEN NoMatch
    ELSE LET b == IndexFrom(css, sOpenBrace, st + 1)
         IN  IF b = 0 THEN NoMatch
             ELSE LET e == IndexFrom(css, sCloseBrace, b + 1)
                  IN  IF e = 0 THEN NoMatch
                      ELSE [found |-> TRUE, start |-> st, end |-> e,
                            selector |-> Trim(SubSeq(css, st, b - 1)),
                            body |-> SubSeq(css, b + 1, e - 1),
                            bodyStart |-> b + 1]

\* ruleRegex.exec(css) with lastIndex = from - 1.  The pattern cannot start
\* at a "{"; at the first other character it fails only when no "{" follows
\* or no "}" follows that "{", and then it fails at every later start too,
\* so the leftmost match, if any, starts at the first character that is no "{".
ruleExec(css, from) ==
    LET S == {st \in from..Len(css) : css[st] # "{"}
    IN  IF S = {} THEN NoMatch ELSE ruleMatchAt(css, Min(S))

\* one optional group (?:\s+([^\s;]+))? tried at index p
paramAt(content, p) ==
    LET w == SkipSpace(content, p)
        t == SkipParam(content, w)
    IN  IF w > p /\ t > w
        THEN [ok |-> TRUE, value |-> SubSeq(content, w, t - 1), next |-> t]
        ELSE [ok |-> FALSE, next |-> p]

\* the four optional groups tried one after the other from index p: the
\* groups that took part in the match, then the index after the last of them
RECURSIVE groupsFrom(_, _, _)
groupsFrom(content, p, n) ==
    IF n = 0 THEN <<[ok |-> FALSE, next |-> p]>>
    ELSE LET g == paramAt(content, p)
         IN  IF g.ok THEN <<g>> \o groupsFrom(content, g.next, n - 1)
             ELSE groupsFrom(content, p, 0)

\* the match record once the quoted content ends at index q and the groups gs
\* were tried; [;]? takes a semicolon that follows
addMatchRecord(content, a, i1, i2, i3, q, gs) ==
    LET after == gs[Len(gs)].next
        e == IF after <= Len(content) /\ content[after] = ";" THEN after
             ELSE after - 1
    IN  [found |-> TRUE, start |-> a, end |-> e,
         all |-> SubSeq(content, a, e),
         className |-> SubSeq(content, i1, i2 - 1),
         content |-> SubSeq(content, i3 + 1, q - 1),
         \* [match[3], match[4], match[5], match[6]].filter(Boolean)
         params |-> [k \in 1..(Len(gs) - 1) |-> gs[k].value]]

\* the pattern after "@add:" and \s*: the class name from i1 to i2, \s+ up
\* to i3, then the quoted content
addMatchTail(content, a, i1, i2, i3) ==
    IF i2 = i1 \/ i3 = i2 \/ i3 > Len(content) THEN NoMatch
    ELSE IF content[i3] # "\"" THEN NoMatch
    ELSE LET q == IndexFrom(content, sQuote, i3 + 1)
         IN  IF q = 0 THEN NoMatch
             ELSE addMatchRecord(content, a, i1, i2, i3, q,
                                 groupsFrom(content, q + 1, 4))

\* the class name that starts at i1
addMatchClass(content, a, i1, i2) ==
    addMatchTail(content, a, i1, i2, SkipSpace(content, i2))

\* the @add pattern tried at start index a of a rule body
addMatchAt(content, a) ==
    IF ~MatchAt(content, sAdd, a) THEN NoMatch
    ELSE addMatchClass(content, a, SkipSpace(content, a + Len(sAdd)),
                       SkipClass(content, SkipSpace(content, a + Len(sAdd))))

\* addRegex.exec(content) with lastIndex = from - 1: the leftmost start index
\* at which the pattern matches
addExec(content, from) ==
    LET S == {a \in from..Len(content) :
                 MatchAt(content, sAdd, a) /\ addMatchAt(content, a).found}
    IN  IF S = {} THEN NoMatch ELSE addMatchAt(content, Min(S))

RECURSIVE addMatches(_, _)

\* the inner while loop from match m on
addMatchesFrom(content, m) ==
    IF ~m.found THEN <<>> ELSE <<m>> \o addMatches(content, m.end + 1)

\* the matches of the inner while loop over one rule body
addMatches(content, from) == addMatchesFrom(content, addExec(content, from))

\* the matches ms of rule r, each with the selector of the rule and the
\* offset of the rule body in css
ofRule(r, ms) ==
    [k \in 1..Len(ms) |->
        [selector |-> r.selector, m |-> ms[k], offset |-> r.bodyStart - 1]]

RECURSIVE directives(_, _)

\* the outer while loop from rule match r on
directivesFrom(css, r) ==
    IF ~r.found THEN <<>>
    ELSE ofRule(r, addMatches(r.body, 1)) \o directives(css, r.end + 1)

\* the directive matches of both while loops, rule by rule
directives(css, from) == directivesFrom(css, ruleExec(css, from))

\* Object.assign(target, source)
Assign(target, source) ==
    [k \in DOMAIN target \cup DOMAIN source |->
        IF k \in DOMAIN source THEN source[k] ELSE target[k]]

\* the position translator of the modular version or of the legacy script
translate(param, legacy) ==
    IF legacy THEN parseAdvancedPosition(param) ELSE parsePosition(param)

sX == <<"x">>

\* params.forEach of an image command: [size, position] after the first n parameters
imageParams(params, legacy) ==
    LET F[n \in 0..Len(params)] ==
            IF n = 0 THEN [size |-> Null, position |-> EmptyStyle]
            ELSE IF Includes(params[n], sX)
                 THEN [size |-> params[n], position |-> F[n - 1].position]
                 ELSE [size |-> F[n - 1].size,
                       position |-> Assign(F[n - 1].position, translate(params[n], legacy))]
    IN  F[Len(params)]

\* a variant that takes a parameter with an x for a size, as an image does
textParams_skipSize(params, legacy) ==
    LET F[n \in 0..Len(params)] ==
            IF n = 0 THEN EmptyStyle
            ELSE IF Includes(params[n], sX) THEN F[n - 1]
            ELSE Assign(F[n - 1], translate(params[n], legacy))
    IN  F[Len(params)]

\* params.forEach of a text command
textParams(params, legacy) ==
    LET F[n \in 0..Len(params)] ==
            IF n = 0 THEN EmptyStyle
            ELSE Assign(F[n - 1], translate(params[n], legacy))
    IN  F[Len(params)]

\* a variant that keeps the closing parenthesis: content.slice(4)
parseImageCommand_slice4(selector, className, content, params) ==
    LET r == imageParams(params, FALSE)
    IN  [type |-> "image", selector |-> selector, className |-> className,
         url |-> SubSeq(content, 5, Len(content)), size |-> r.size,
         position |-> r.position]

\* CSSProcessor.parseImageCommand
parseImageCommand(selector, className, content, params) ==
    LET r == imageParams(params, FALSE)
    IN  [type |-> "image", selector |-> selector, className |-> className,
         url |-> SliceDropLast(content, 4), size |-> r.size, position |-> r.position]

\* CSSProcessor.parseTextCommand
parseTextCommand(selector, className, content, params) ==
    [type |-> "text", selector |-> selector, className |-> className,
     text |-> content, position |-> textParams(params, FALSE)]

\* CSSProcessor.parseAddCommand
parseAddCommand(selector, match) ==
    IF StartsWith(match.content, sUrlOpen)
    THEN parseImageCommand(selector, match.className, match.content, match.params)
    ELSE parseTextCommand(selector, match.className, match.content, match.params)

\* a variant in which the first parameter with an x stays the size
legacyCommand_firstSize(selector, match) ==
    IF StartsWith(match.content, sUrlOpen)
    THEN LET r == imageParams(match.params, TRUE)
             X == {n \in 1..Len(match.params) : Includes(match.params[n], sX)}
         IN  [type |-> "image", selector |-> selector, className |-> match.className,
              url |-> SliceDropLast(match.content, 4),
              size |-> IF X = {} THEN Null ELSE match.params[Min(X)],
              position |-> r.position]
    ELSE [type |-> "text", selector |-> selector, className |-> match.className,
          text |-> match.content, position |-> textParams(match.params, TRUE)]

\* the command pushed by the loop body of the legacy processCSSAddSyntax
legacyCommand(selector, match) ==
    IF StartsWith(match.content, sUrlOpen)
    THEN LET r == imageParams(match.params, TRUE)
         IN  [type |-> "image", selector |-> selector, className |-> match.className,
              url |-> SliceDropLast(match.content, 4), size |-> r.size,
              position |-> r.position]
    ELSE [type |-> "text", selector |-> selector, className |-> match.className,
          text |-> match.content, position |-> textParams(match.params, TRUE)]

\* processedCSS after the directives ds: each is removed by
\* processedCSS.replace(addMatch[0], '')
strip(css, ds) ==
    LET F[n \in 0..Len(ds)] ==
            IF n = 0 THEN css ELSE ReplaceFirst(F[n - 1], ds[n].m.all, <<>>)
    IN  F[Len(ds)]

\* what processAddSyntax returns when its loops matched the directives ds
addSyntaxResult(css, ds) ==
    [css |-> strip(css, ds),
     commands |-> [k \in 1..Len(ds) |-> parseAddCommand(ds[k].selector, ds[k].m)]]

\* CSSProcessor.processAddSyntax
processAddSyntax(css) == addSyntaxResult(css, directives(css, 1))

\* what the legacy processCSSAddSyntax returns when its loops matched ds
legacyAddSyntaxResult(css, ds) ==
    [css |-> strip(css, ds),
     addCommands |-> [k \in 1..Len(ds) |-> legacyCommand(ds[k].selector, ds[k].m)]]

\* processCSSAddSyntax of the legacy script
processCSSAddSyntax(css) == legacyAddSyntaxResult(css, directives(css, 1))

\* the result object of process
processResult(jsExtracted, addProcessed) ==
    [css |-> addProcessed.css, javascript |-> jsExtracted.javascript,
     addCommands |-> addProcessed.commands]

\* process after the splitter returned jsExtracted
processSplit(jsExtracted) ==
    processResult(jsExtracted, processAddSyntax(jsExtracted.css))

\* CSSProcessor.process
process(content) ==
    IF content = <<>> THEN [css |-> <<>>, javascript |-> <<>>, addCommands |-> <<>>]
    ELSE processSplit(extractJavaScript(content))

----------------------------------------------------------------------------
(* The directive parser and process() applied to typed text *)

\* .card { @add: deco "url(http://x/y.png)" 100x50 top-10px; color:red; }
ExampleImage ==
    <<".","c","a","r","d"," ","{"," ","@","a","d","d",":"," ","d","e","c","o"," ","\"","u","r","l","(","h","t","t","p",":","/","/","x","/","y",".","p","n","g",")","\""," ","1","0","0","x","5","0"," ","t","o","p","-","1","0","p","x",";"," ","c","o","l","o","r",":","r","e","d",";"," ","}">>

\* .n { @add: label "Hello" right-5px }
ExampleText ==
    <<".","n"," ","{"," ","@","a","d","d",":"," ","l","a","b","e","l"," ","\"","H","e","l","l","o","\""," ","r","i","g","h","t","-","5","p","x"," ","}">>

\* a text directive without semicolon, on the next line a directive without
\* class name:   .n { @add: label "Hello" right-5px
\*               @add: "m" }
ExampleTwoLines ==
    <<".","n"," ","{"," ","@","a","d","d",":"," ","l","a","b","e","l"," ","\"","H","e","l","l","o","\""," ","r","i","g","h","t","-","5","p","x","\n","@","a","d","d",":"," ","\"","m","\""," ","}">>

\* .c{@add: t "hi" top-1 top-2px}: two parameters for the same side
ExampleTwoTops ==
    <<".","c","{","@","a","d","d",":"," ","t"," ","\"","h","i","\""," ","t","o","p","-","1",
      " ","t","o","p","-","2","p","x","}">>

\* .c{@add: t "hi" center}
ExampleCenter ==
    <<".","c","{","@","a","d","d",":"," ","t"," ","\"","h","i","\""," ","c","e","n","t","e","r","}">>

Snippets == {ExampleImage, ExampleText, ExampleTwoLines, ExampleTwoTops, ExampleCenter}

fragSelector == <<".","c">>
fragImage == <<"@","a","d","d",":"," ","d"," ","\"","u","r","l","(","u",")","\""," ","9","x","9">>
fragText == <<"@","a","d","d",":"," ","t"," ","\"","h","i","\""," ","t","o","p","-","1">>
fragParam == <<" ","l","e","f","t","-","2","p","x">>
fragMalformed == <<"@","a","d","d",":"," ","\"","m","\"">>
fragScript == <<"<","s","c","r","i","p","t",">","a","<","/","s","c","r","i","p","t",">">>

AddFrags ==
    {fragSelector, sOpenBrace, sCloseBrace, fragImage, fragText, <<";">>,
     fragParam, fragMalformed, fragScript}

InitAdd ==
    /\ text = <<>>
    /\ nfrag = 0
    /\ out = NoResult
    /\ constructed("modular")

\* the user pastes a whole rule into the empty textarea
PasteSnippet ==
    /\ nfrag = 0
    /\ \E sn \in Snippets : text' = sn
    /\ nfrag' = 1
    /\ UNCHANGED host
    /\ out' = NoResult

\* the user extends the text by one fragment
TypeAddText ==
    /\ nfrag < MaxAddFrags
    /\ \E f \in AddFrags : text' = text \o f
    /\ nfrag' = nfrag + 1
    /\ UNCHANGED host
    /\ out' = NoResult

\* the call fn(arg) and what it returned
Returned(fn, arg, css, javascript, commands) ==
    [fn |-> fn, arg |-> arg, css |-> css, javascript |-> javascript,
     commands |-> commands]

ReturnedAddSyntax(arg, r) == Returned("processAddSyntax", arg, r.css, <<>>, r.commands)

ReturnedLegacyAddSyntax(arg, r) ==
    Returned("processCSSAddSyntax", arg, r.css, <<>>, r.addCommands)

ReturnedProcess(arg, r) == Returned("process", arg, r.css, r.javascript, r.addCommands)

CallProcessAddSyntax ==
    /\ out = NoResult
    /\ out' = ReturnedAddSyntax(text, processAddSyntax(text))
    /\ UNCHANGED <<text, nfrag, host>>

CallProcessCSSAddSyntax ==
    /\ out = NoResult
    /\ out' = ReturnedLegacyAddSyntax(text, processCSSAddSyntax(text))
    /\ UNCHANGED <<text, nfrag, host>>

CallProcess ==
    /\ out = NoResult
    /\ out' = ReturnedProcess(text, process(text))
    /\ UNCHANGED <<text, nfrag, host>>

NextAdd ==
    \/ PasteSnippet
    \/ TypeAddText
    \/ CallProcessAddSyntax
    \/ CallProcessCSSAddSyntax
    \/ CallProcess

SpecAdd == InitAdd /\ [][NextAdd]_vars

----------------------------------------------------------------------------
(* Claims about the directive parser and process() *)

DirectivesParsed == out.fn \in {"processAddSyntax", "processCSSAddSyntax"}

\* C1: the image directive of ExampleImage, which carries the size token
\* 100x50 and the position token top-10px, parses to exactly one image command
\* with size "100x50" and position {top: "10px"}, and the css returned keeps
\* the rule with only the directive text removed.
C1_SizeAndPxPositionParsed ==
    (DirectivesParsed /\ out.arg = ExampleImage) =>
        /\ out.commands =
              << [type |-> "image",
                  selector |-> <<".","c","a","r","d">>,
                  className |-> <<"d","e","c","o">>,
                  url |-> <<"h","t","t","p",":","/","/","x","/","y",".","p","n","g">>,
                  size |-> <<"1","0","0","x","5","0">>,
                  position |-> [top |-> <<"1","0","p","x">>]] >>
        /\ out.css = <<".","c","a","r","d"," ","{"," "," ","c","o","l","o","r",":","r","e","d",";"," ","}">>

\* the places in css at which the directives of its rule bodies matched
spansOf(ds) ==
    [k \in 1..Len(ds) |->
        [start |-> ds[k].offset + ds[k].m.start, end |-> ds[k].offset + ds[k].m.end]]

directiveSpans(css) == spansOf(directives(css, 1))

\* C3: the css returned by the directive parser equals the input with the
\* text of each directive that produced a command deleted at the place where
\* it matched inside its rule body, and no other text touched.
C3_DirectiveRemovedWhereMatched ==
    DirectivesParsed => out.css = WithoutSpans(out.arg, directiveSpans(out.arg))

PlainText(t) == IndexFromCI(t, sScriptOpen, 1) = 0 /\ ~Includes(t, sAdd)

\* C6: for every input with no script tag and no @add: directive, process
\* returns the input trimmed as css, no command and no script.
C6_PlainTextPassesThrough ==
    (out.fn = "process" /\ PlainText(out.arg)) =>
        /\ out.css = Trim(out.arg)
        /\ out.commands = <<>>
        /\ out.javascript = <<>>

\* process ran on a plain text that holds a rule and has whitespace to trim
C6_Witness ==
    /\ out.fn = "process"
    /\ PlainText(out.arg)
    /\ ruleExec(out.arg, 1).found
    /\ out.arg # Trim(out.arg)
    /\ out.css = Trim(out.arg)

\* the first of params that contains the character x, null when none does
FirstWithX(params) ==
    LET X == {n \in 1..Len(params) : Includes(params[n], sX)}
    IN  IF X = {} THEN Null ELSE params[Min(X)]

\* every image command among commands has as size the first parameter with
\* an x of its directive in ds
SizeIsFirstWithX(commands, ds) ==
    /\ Len(commands) = Len(ds)
    /\ \A k \in 1..Len(commands) :
          commands[k].type = "image" =>
              commands[k].size = FirstWithX(ds[k].m.params)

\* C11: for an image directive with several parameters that contain the
\* character x, the size of the command is the first of them in directive
\* order; later ones do not replace it.
C11_FirstSizeParameterWins ==
    DirectivesParsed => SizeIsFirstWithX(out.commands, directives(out.arg, 1))

\* how often pat occurs in s
Count(s, pat) == Cardinality({i \in 1..Len(s) : MatchAt(s, pat, i)})

RECURSIVE ruleBodies(_, _)

ruleBodiesFrom(css, r) ==
    IF ~r.found THEN <<>> ELSE <<r.body>> \o ruleBodies(css, r.end + 1)

\* the rule bodies of css that the rule pattern matches
ruleBodies(css, from) == ruleBodiesFrom(css, ruleExec(css, from))

\* some rule body in bodies holds pat
SomeBodyHolds(bodies, pat) ==
    \E k \in 1..Len(bodies) : Includes(bodies[k], pat)

\* none of the directive matches ds reaches into an occurrence of pat
NoMatchTakes(ds, pat) ==
    \A k \in 1..Len(ds) : ~Includes(ds[k].m.all, pat)

\* C12: a directive without class name (fragMalformed) inside a rule body
\* produces no command and stays in the css returned, and the well-formed
\* directives of the same input match and are removed without it.
C12_MalformedDirectiveLeftAlone ==
    (DirectivesParsed /\ SomeBodyHolds(ruleBodies(out.arg, 1), fragMalformed)) =>
        /\ Count(out.css, fragMalformed) = Count(out.arg, fragMalformed)
        /\ NoMatchTakes(directives(out.arg, 1), fragMalformed)

\* the parameters of params whose translation sets key k
SettersOf(params, legacy, k) ==
    {n \in 1..Len(params) : k \in DOMAIN translate(params[n], legacy)}

\* position holds the keys that the translations of params set, each with
\* the value from the last parameter that sets it
MergedLeftToRight(position, params, legacy) ==
    /\ DOMAIN position = UNION {DOMAIN translate(params[n], legacy) : n \in 1..Len(params)}
    /\ \A k \in DOMAIN position :
          LET last == CHOOSE n \in SettersOf(params, legacy, k) :
                          \A m \in SettersOf(params, legacy, k) : m <= n
          IN  position[k] = translate(params[last], legacy)[k]

\* whether the quoted content of a directive starts with url(
IsUrlContent(content) ==
    /\ Len(content) >= 4
    /\ SubSeq(content, 1, 4) = <<"u","r","l","(">>

\* every command of a directive whose content is no url(...) is a text
\* command with that content, without size, with all parameters merged
TextCommandsMerged(commands, ds, legacy) ==
    /\ Len(commands) = Len(ds)
    /\ \A k \in 1..Len(commands) :
          ~IsUrlContent(ds[k].m.content) =>
              /\ commands[k].type = "text"
              /\ commands[k].text = ds[k].m.content
              /\ "size" \notin DOMAIN commands[k]
              /\ MergedLeftToRight(commands[k].position, ds[k].m.params, legacy)

\* C19: for a text directive every parameter goes through the position
\* translator and the results are merged left to right, a later parameter
\* overwriting an earlier one on the same key; the command is of kind text,
\* its text is the quoted content verbatim, and it has no size field, even
\* when a parameter contains x.
C19_TextParametersAllTranslated ==
    DirectivesParsed =>
        TextCommandsMerged(out.commands, directives(out.arg, 1),
                           out.fn = "processCSSAddSyntax")

\* a text directive with two parameters for the same side, the second with
\* an x, was parsed: the second value stands
C19_Witness ==
    /\ out.fn = "processAddSyntax"
    /\ out.arg = ExampleTwoTops
    /\ Len(out.commands) = 1
    /\ out.commands[1].type = "text"
    /\ out.commands[1].position = [top |-> <<"2","p","x">>]

\* a command is an image exactly for url(...) content, and then its url is
\* the content without its first four characters and its last one
KindFollowsContent(commands, ds) ==
    /\ Len(commands) = Len(ds)
    /\ \A k \in 1..Len(commands) :
          /\ commands[k].type = "image" <=> IsUrlContent(ds[k].m.content)
          /\ commands[k].type # "image" => commands[k].type = "text"
          /\ commands[k].type = "image" =>
                commands[k].url =
                    [i \in 1..(Len(ds[k].m.content) - 5) |-> ds[k].m.content[i + 4]]

\* C20: a command is of kind image if and only if the quoted content of its
\* directive starts with url(; its url is then the content without the first
\* 4 characters and the last character; any other content gives a text
\* command.
C20_ImageIffUrlContent ==
    DirectivesParsed => KindFollowsContent(out.commands, directives(out.arg, 1))

\* the typed rule .c{@add: d "url(u)" 9x9} was parsed: one image command with
\* url u
C20_Witness ==
    /\ DirectivesParsed
    /\ out.arg = fragSelector \o sOpenBrace \o fragImage \o sCloseBrace
    /\ Len(out.commands) = 1
    /\ out.commands[1].type = "image"
    /\ out.commands[1].url = <<"u">>

\* no parameter of the directives ds contains center
NoCenterParameter(ds) ==
    \A k \in 1..Len(ds) :
        \A n \in 1..Len(ds[k].m.params) : ~Includes(ds[k].m.params[n], kwCenter)

\* what the legacy script computes from a text: parseContent, then
\* processCSSAddSyntax on the css it returned
legacyPipeline(parsed, processedCSS) ==
    [css |-> processedCSS.css, javascript |-> parsed.javascript,
     addCommands |-> processedCSS.addCommands]

\* r is what the legacy script computes once parseContent returned parsed
SameAsLegacy(r, parsed) ==
    r = legacyPipeline(parsed, processCSSAddSyntax(parsed.css))

\* C21: on an input in which no directive parameter contains center, the
\* modular pipeline (extractJavaScript, processAddSyntax) and the legacy one
\* (parseContent, processCSSAddSyntax) return the same css, the same script
\* text and the same commands in the same order.
C21_PipelinesAgreeWithoutCenter ==
    (/\ out.fn = "process"
     /\ out.arg # <<>>
     /\ NoCenterParameter(directives(extractJavaScript(out.arg).css, 1))) =>
        SameAsLegacy([css |-> out.css, javascript |-> out.javascript,
                      addCommands |-> out.commands],
                     parseContent(out.arg))

\* process ran on the pasted image rule followed by a script block: one
\* command and the script text a
C21_Witness ==
    /\ out.fn = "process"
    /\ out.arg = ExampleImage \o fragScript
    /\ Len(out.commands) = 1
    /\ out.javascript = <<"a">>

----------------------------------------------------------------------------
(* The command executor, the style injection and the clears, as functions   *)
(* of the state S = [settings, ext, core, document, out]                    *)

sEnhancedAdd == <<"e","n","h","a","n","c","e","d","-","a","d","d","-">>
sAbsolute == <<"a","b","s","o","l","u","t","e">>
sContain == <<"c","o","n","t","a","i","n">>
sNoRepeat == <<"n","o","-","r","e","p","e","a","t">>
sCenter == <<"c","e","n","t","e","r">>
sCloseParen == <<")">>
sPx == <<"p","x">>
sDefaultSize == <<"5","0","p","x">>

\* the id under which handleCSSChange injects the stylesheet
mainCustomCss == <<"main-custom-css">>

\* the selectors of the texts considered here are class selectors, or no
\* selectors at all: for those document.querySelectorAll throws a SyntaxError
SelectorIsValid(sel) ==
    /\ Len(sel) >= 2
    /\ sel[1] = "."
    /\ \A i \in 2..Len(sel) : IsClassChar(sel[i])

\* document.querySelectorAll(sel) for a class selector, in document order
querySelectorAll(sel) ==
    SelectSeq(ElementOrder, LAMBDA e : classOf[e] = SubSeq(sel, 2, Len(sel)))

\* a variant that looks at the inline style only
computedPosition_inlineOnly(doc, el) ==
    IF doc.position[el] # "" THEN doc.position[el] ELSE "static"

\* getComputedStyle(el).position
computedPosition(doc, el) ==
    IF doc.position[el] # "" THEN doc.position[el] ELSE pagePosition[el]

\* const [width, height] = cmd.size.split('x')
splitSize(size) ==
    LET i == IndexOf(size, sX)
        rest == SubSeq(size, i + 1, Len(size))
        j == IndexOf(rest, sX)
    IN  [width |-> SubSeq(size, 1, i - 1),
         height |-> IF j = 0 THEN rest ELSE SubSeq(rest, 1, j - 1)]

\* the four background declarations of an image node
backgroundStyle(cmd) ==
    [backgroundImage |-> sUrlOpen \o cmd.url \o sCloseParen,
     backgroundSize |-> sContain,
     backgroundRepeat |-> sNoRepeat,
     backgroundPosition |-> sCenter]

\* the width and height assigned from a parsed size
sizeStyle(size) ==
    [width |-> splitSize(size).width \o sPx, height |-> splitSize(size).height \o sPx]

\* CSSProcessor.createImageElement: the values assigned to element.style
createImageElement(cmd) ==
    [tag |-> "div", className |-> sEnhancedAdd \o cmd.className, textContent |-> <<>>,
     style |-> Assign(backgroundStyle(cmd),
                      IF cmd.size # Null THEN sizeStyle(cmd.size)
                      ELSE [width |-> sDefaultSize, height |-> sDefaultSize])]

\* CSSProcessor.createTextElement
createTextElement(cmd) ==
    [tag |-> "span", className |-> sEnhancedAdd \o cmd.className,
     textContent |-> cmd.text, style |-> EmptyStyle]

\* the image branch of the legacy executeAddCommands
legacyImageElement(cmd) ==
    [tag |-> "div", className |-> sEnhancedAdd \o cmd.className, textContent |-> <<>>,
     style |-> IF cmd.size # Null THEN Assign(backgroundStyle(cmd), sizeStyle(cmd.size))
               ELSE backgroundStyle(cmd)]

\* the css of the attached <style> elements of the extension
sheetsOf(doc) == [i \in 1..Len(doc.head) |-> doc.head[i].css]

\* a variant that inserts the node as the first child of the anchor
spawn_firstChild(S, cmd, el, legacy, pass) ==
    LET doc == S.document
        made == IF cmd.type = "image"
                THEN IF legacy THEN legacyImageElement(cmd) ELSE createImageElement(cmd)
                ELSE createTextElement(cmd)
        node == [uid |-> doc.nextNode, tag |-> made.tag, className |-> made.className,
                 textContent |-> made.textContent,
                 style |-> Assign(Assign(made.style, [position |-> sAbsolute]),
                                  cmd.position),
                 marker |-> TRUE, pass |-> pass, sheets |-> sheetsOf(doc)]
    IN  [S EXCEPT
           !.document.nextNode = @ + 1,
           !.document.position[el] =
               IF computedPosition(doc, el) = "static" THEN "relative" ELSE @,
           !.document.children[el] = <<node>> \o @,
           !.core.addedElements = @ \cup {node.uid}]

\* the body of elements.forEach: one node for command cmd on anchor el.  The
\* node remembers the pass that made it and the stylesheets attached then.
spawn(S, cmd, el, legacy, pass) ==
    LET doc == S.document
        made == IF cmd.type = "image"
                THEN IF legacy THEN legacyImageElement(cmd) ELSE createImageElement(cmd)
                ELSE createTextElement(cmd)
        node == [uid |-> doc.nextNode, tag |-> made.tag, className |-> made.className,
                 textContent |-> made.textContent,
                 style |-> Assign(Assign(made.style, [position |-> sAbsolute]),
                                  cmd.position),
                 marker |-> TRUE, pass |-> pass, sheets |-> sheetsOf(doc)]
    IN  [S EXCEPT
           !.document.nextNode = @ + 1,
           !.document.position[el] =
               IF computedPosition(doc, el) = "static" THEN "relative" ELSE @,
           !.document.children[el] = Append(@, node),
           !.core.addedElements = @ \cup {node.uid}]

\* elements.forEach for one command
spawnOnAll(S, cmd, els, legacy, pass) ==
    LET F[n \in 0..Len(els)] ==
            IF n = 0 THEN S ELSE spawn(F[n - 1], cmd, els[n], legacy, pass)
    IN  F[Len(els)]

\* the index of the first command whose selector query throws, or one past
\* the last command
firstThrow(commands) ==
    LET B == {k \in 1..Len(commands) : ~SelectorIsValid(commands[k].selector)}
    IN  IF B = {} THEN Len(commands) + 1 ELSE Min(B)

\* a variant that catches the error of a selector query and goes on with the
\* next command
executeAddCommands_catching(S, commands, legacy, pass) ==
    LET F[k \in 0..Len(commands)] ==
            IF k = 0 THEN S
            ELSE IF ~SelectorIsValid(commands[k].selector) THEN F[k - 1]
            ELSE spawnOnAll(F[k - 1], commands[k],
                            querySelectorAll(commands[k].selector), legacy, pass)
    IN  F[Len(commands)]

\* executeAddCommands of either version: commands.forEach, left when a
\* selector query throws
executeAddCommands(S, commands, legacy, pass) ==
    LET F[k \in 0..Len(commands)] ==
            IF k = 0 THEN S
            ELSE spawnOnAll(F[k - 1], commands[k],
                            querySelectorAll(commands[k].selector), legacy, pass)
    IN  F[firstThrow(commands) - 1]

\* element.remove() / parentNode.removeChild(element) for the nodes in uids
removeNodes(doc, uids) ==
    [doc EXCEPT !.children =
        [e \in Elements |-> SelectSeq(doc.children[e], LAMBDA n : n.uid \notin uids)]]

\* the same for <style> elements
removeStyles(doc, uids) ==
    [doc EXCEPT !.head = SelectSeq(doc.head, LAMBDA s : s.uid \notin uids)]

\* document.head.appendChild(style) for a new <style> element with attribute
\* id (Null when it has none), text css, and with or without the attribute
\* data-enhanced-css
appendStyle(doc, id, css, marked) ==
    [doc EXCEPT
       !.head = Append(@, [uid |-> doc.nextNode, id |-> id, css |-> css,
                           marked |-> marked]),
       !.nextNode = @ + 1,
       !.injected = {p \in @ : p.id # id} \cup {[id |-> id, css |-> css]}]

\* CoreModule.applyCSS(css, id)
applyCSS(S, css, id) ==
    LET styleId == IF id # Null THEN id
                   ELSE <<"enhanced-style", S.core.elementIdCounter>>
        old == {t \in S.core.addedStyles : t.id = styleId}
        doc == removeStyles(S.document, {t.uid : t \in old})
    IN  [S EXCEPT
           !.document = appendStyle(doc, styleId, css, TRUE),
           !.core.addedStyles = (@ \ old) \cup {[id |-> styleId, uid |-> doc.nextNode]},
           !.core.elementIdCounter = IF id # Null THEN @ ELSE @ + 1]

\* applyCSS(css, id) of the first CoreModule, called when Date.now() is now: a
\* style without id is kept under the key `style-${Date.now()}`
early_applyCSS(S, css, id, now) ==
    LET key == IF id # Null THEN id ELSE <<"style", now>>
        old == {t \in S.core.addedStyles : t.id = key}
        doc == IF id # Null THEN removeStyles(S.document, {t.uid : t \in old})
               ELSE S.document
    IN  [S EXCEPT
           !.document = appendStyle(doc, id, css, TRUE),
           !.core.addedStyles = (@ \ old) \cup {[id |-> key, uid |-> doc.nextNode]}]

\* applyCSS(css) of the legacy script
legacyApplyCSS(S, css) ==
    [S EXCEPT
       !.document = appendStyle(@, Null, css, TRUE),
       !.core.addedStyles = @ \cup {[id |-> Null, uid |-> S.document.nextNode]}]

\* the child nodes of anchor e
childrenOf(doc, e) == {doc.children[e][i] : i \in 1..Len(doc.children[e])}

\* document.querySelectorAll('[data-enhanced-css-element]')
markedNodes(doc) ==
    UNION {{n.uid : n \in {m \in childrenOf(doc, e) : m.marker}} : e \in Elements}

\* document.querySelectorAll('style[data-enhanced-css]')
markedStyles(doc) == {doc.head[i].uid : i \in {j \in 1..Len(doc.head) : doc.head[j].marked}}

\* whether options.parent, or the parentSelector of addElement, is a selector
\* for which document.querySelector throws
parentThrows(parent) == parent.kind = "selector" /\ ~SelectorIsValid(parent.sel)

\* the element that options.parent stands for: an element itself, the first
\* match of a selector, or none ("")
parentOf(parent) ==
    IF parent.kind = "element" THEN parent.el
    ELSE IF parent.kind = "selector" /\ Len(querySelectorAll(parent.sel)) > 0
    THEN querySelectorAll(parent.sel)[1]
    ELSE ""

\* CoreModule.createElement(tag, options) of either CoreModule: the element is
\* appended to its parent when there is one, marked and tracked; when the
\* parent selector throws, the element made is dropped
createElement(S, tag, options, early) ==
    LET doc == S.document
        node == [uid |-> doc.nextNode, tag |-> tag, className |-> options.class,
                 textContent |-> options.text, style |-> options.style,
                 marker |-> TRUE, pass |-> 0, sheets |-> sheetsOf(doc)]
        S1 == [S EXCEPT !.document.nextNode = @ + 1,
                        !.core.elementIdCounter = IF early THEN @ ELSE @ + 1]
    IN  IF parentThrows(options.parent) THEN S1
        ELSE [S1 EXCEPT
                !.document.children =
                    [e \in Elements |->
                        IF e = parentOf(options.parent) THEN Append(@[e], node)
                        ELSE @[e]],
                !.core.addedElements = @ \cup {node.uid}]

\* whether options.style asks for position absolute or fixed
needsAnchor(style) ==
    "position" \in DOMAIN style /\ style.position \in {sAbsolute, <<"f","i","x","e","d">>}

\* CoreModule.addElement(parentSelector, tag, options) of either CoreModule;
\* the later one records the parent's inline position before it changes it
addElement(S, parentSelector, tag, options, early) ==
    LET parent == parentOf([kind |-> "selector", sel |-> parentSelector])
        known == {m.el : m \in S.core.modifiedElements}
        S1 == [S EXCEPT
                 !.core.modifiedElements =
                     IF early \/ parent \in known THEN @
                     ELSE @ \cup {[el |-> parent, has |-> "position",
                                   originalPosition |-> S.document.position[parent],
                                   originalClasses |-> {}]},
                 !.document.position[parent] =
                     IF needsAnchor(options.style)
                            /\ computedPosition(S.document, parent) = "static"
                     THEN "relative" ELSE @]
    IN  IF ~SelectorIsValid(parentSelector) \/ parent = "" THEN S
        ELSE createElement(S1, tag,
                           [options EXCEPT !.parent = [kind |-> "element", el |-> parent]],
                           early)

\* className.split(' ').filter(Boolean)
classNames(className) ==
    LET n == Len(className)
        starts == {k \in 1..n : className[k] # " " /\ (k = 1 \/ className[k - 1] = " ")}
    IN  {SubSeq(className, i, Min({j \in i..n : j = n \/ className[j + 1] = " "})) :
            i \in starts}

\* CoreModule.addClass(selector, className) of either CoreModule, for classes
\* that no selector used here names; the later one records the classes an
\* element had before
addClass(S, selector, className, early) ==
    LET els == querySelectorAll(selector)
        hit == {els[i] : i \in 1..Len(els)}
        known == {m.el : m \in S.core.modifiedElements}
    IN  IF ~SelectorIsValid(selector) \/ hit = {} \/ classNames(className) = {} THEN S
        ELSE [S EXCEPT
                !.core.modifiedElements =
                    IF early THEN @
                    ELSE @ \cup {[el |-> e, has |-> "classes", originalPosition |-> "",
                                  originalClasses |-> S.document.classList[e]] :
                                 e \in hit \ known},
                !.document.classList =
                    [e \in Elements |->
                        IF e \in hit THEN @[e] \cup classNames(className) ELSE @[e]],
                !.core.addedClasses =
                    @ \cup {[selector |-> selector, cls |-> c] : c \in classNames(className)}]

\* step 5 of clearAll: the recorded inline position, or the recorded classes,
\* of every modified element are put back
restoreModified(doc, modified) ==
    [doc EXCEPT
       !.position =
           [e \in Elements |->
               IF \E m \in modified : m.el = e /\ m.has = "position"
               THEN (CHOOSE m \in modified : m.el = e).originalPosition
               ELSE @[e]],
       !.classList =
           [e \in Elements |->
               IF \E m \in modified : m.el = e /\ m.has = "classes"
               THEN @[e] \cap (CHOOSE m \in modified : m.el = e).originalClasses
               ELSE @[e]]]

\* step 6 of clearAll: every recorded class is taken off the elements that
\* its selector matches
removeAddedClasses(doc, added) ==
    [doc EXCEPT
       !.classList =
           [e \in Elements |->
               @[e] \ {a.cls : a \in {b \in added :
                          \E i \in 1..Len(querySelectorAll(b.selector)) :
                              querySelectorAll(b.selector)[i] = e}}]]

\* CoreModule.clearAll: tracked elements, marked elements, tracked styles and
\* marked styles are removed, modified elements restored, added classes
\* removed, and the counter is reset
clearAll(S) ==
    LET d1 == removeNodes(S.document, S.core.addedElements)
        d2 == removeNodes(d1, markedNodes(d1))
        d3 == removeStyles(d2, {t.uid : t \in S.core.addedStyles})
        d4 == removeStyles(d3, markedStyles(d3))
        d5 == restoreModified(d4, S.core.modifiedElements)
        d6 == removeAddedClasses(d5, S.core.addedClasses)
    IN  IF S.core.isClearing THEN S
        ELSE [S EXCEPT !.document = d6, !.core = EmptyCore]

\* clearAll of the first CoreModule: tracked elements, marked elements and
\* tracked styles are removed, and added classes taken off
early_clearAll(S) ==
    LET d1 == removeNodes(S.document, S.core.addedElements)
        d2 == removeNodes(d1, markedNodes(d1))
        d3 == removeStyles(d2, {t.uid : t \in S.core.addedStyles})
        d4 == removeAddedClasses(d3, S.core.addedClasses)
    IN  [S EXCEPT !.document = d4,
                  !.core.addedElements = {},
                  !.core.addedStyles = {},
                  !.core.addedClasses = {}]

\* clearAddedContent of the legacy script
clearAddedContent(S) ==
    LET d1 == removeStyles(S.document, {t.uid : t \in S.core.addedStyles})
        d2 == removeNodes(d1, markedNodes(d1))
    IN  [S EXCEPT !.document = d2,
                  !.core.addedStyles = {},
                  !.core.addedElements = {}]

----------------------------------------------------------------------------
(* Storage *)

\* A value given to Storage carries the length of its JSON text (size) and
\* the timestamp that cleanup reads from it; type "null" is the value null.

\* this.prefix
prefix == "EnhancedCustomCSSPlus_"

\* Storage.getKey(key)
getKey(key) == <<prefix, key>>

\* fullKey.replace(this.prefix, '')
stripPrefix(fullKey) == fullKey[2]

\* JSON.stringify(value)
JSON_stringify(value) == [json |-> value, length |-> value.size]

\* JSON.parse(serialized)
JSON_parse(serialized) == serialized.json

\* Map.set and localStorage.setItem once the quota is passed
setItem(items, k, v) == [x \in DOMAIN items \cup {k} |-> IF x = k THEN v ELSE items[x]]

\* Map.delete and localStorage.removeItem
removeItem(items, k) == [x \in DOMAIN items \ {k} |-> items[x]]

\* the length of the texts localStorage holds under the keys K
RECURSIVE lengthOf(_, _)
lengthOf(ls, K) ==
    IF K = {} THEN 0
    ELSE LET k == CHOOSE x \in K : TRUE
         IN  ls[k].length + lengthOf(ls, K \ {k})

\* localStorage.setItem(fullKey, serialized) throws QuotaExceededError
quotaExceeded(ls, fullKey, serialized) ==
    lengthOf(ls, DOMAIN ls \ {fullKey}) + serialized.length > Quota

\* Storage.getAllKeys
getAllKeys(ls) == {fullKey \in DOMAIN ls : fullKey[1] = prefix}

\* Storage.loadCache, for the constructor of a Storage over localStorage ls
loadCache(ls) ==
    [localStorage |-> ls,
     cache |-> [key \in {stripPrefix(fullKey) : fullKey \in getAllKeys(ls)} |->
                   JSON_parse(ls[getKey(key)])]]

\* the events emit is called with
changedEvents(key) ==
    <<[event |-> <<"changed">>, key |-> key], [event |-> <<"changed:", key>>, key |-> key]>>

removedEvents(key) ==
    <<[event |-> <<"removed">>, key |-> key], [event |-> <<"removed:", key>>, key |-> key]>>

\* a call in progress: the storage, the events emitted so far, and whether
\* the promise resolves
calling(st) == [storage |-> st, emitted |-> <<>>, resolved |-> TRUE]

\* Storage.remove(key)
Storage_remove(r, key) ==
    [r EXCEPT !.storage.localStorage = removeItem(@, getKey(key)),
              !.storage.cache = removeItem(@, key),
              !.emitted = @ \o removedEvents(key)]

\* Storage.has(key)
Storage_has(st, key) == getKey(key) \in DOMAIN st.localStorage

\* Storage.get(key): the value when there is one, with the cache it leaves
Storage_get(st, key) ==
    IF key \in DOMAIN st.cache
    THEN [storage |-> st, found |-> TRUE, value |-> st.cache[key]]
    ELSE IF getKey(key) \notin DOMAIN st.localStorage
    THEN [storage |-> st, found |-> FALSE, value |-> [type |-> "null"]]
    ELSE [storage |-> [st EXCEPT !.cache =
                          setItem(@, key, JSON_parse(st.localStorage[getKey(key)]))],
          found |-> TRUE,
          value |-> JSON_parse(st.localStorage[getKey(key)])]

\* Storage.clear
Storage_clear(r) ==
    [r EXCEPT !.storage.localStorage =
                  [x \in DOMAIN @ \ getAllKeys(@) |-> @[x]],
              !.storage.cache = NoItems,
              !.emitted = @ \o <<[event |-> <<"cleared">>, key |-> ""]>>]

\* cleanup reads value.timestamp of the parsed text: of null that throws
timestampThrows(ls, fullKey) == JSON_parse(ls[fullKey]).type = "null"

\* the deletion loop of cleanup: n times the entry with the least timestamp
\* among the keys D is removed; the order of entries of equal timestamp is
\* that of localStorage.key(i), which the browser chooses
RECURSIVE removeOldest(_, _, _)
removeOldest(r, D, n) ==
    IF n = 0 \/ D = {} THEN {r}
    ELSE UNION {removeOldest(Storage_remove(r, key), D \ {key}, n - 1) :
                  key \in {k \in D : \A j \in D :
                              r.storage.localStorage[getKey(k)].json.timestamp
                                <= r.storage.localStorage[getKey(j)].json.timestamp}}

\* Storage.cleanup: the entries whose reading throws are taken out of
\* localStorage, then the oldest fifth of the others is removed
Storage_cleanup(r) ==
    removeOldest(
        [r EXCEPT !.storage.localStorage =
            [x \in DOMAIN @ \ {k \in getAllKeys(@) : timestampThrows(@, k)} |-> @[x]]],
        {stripPrefix(k) : k \in {f \in getAllKeys(r.storage.localStorage) :
                                    ~timestampThrows(r.storage.localStorage, f)}},
        Cardinality({f \in getAllKeys(r.storage.localStorage) :
                        ~timestampThrows(r.storage.localStorage, f)}) \div 5)

\* the text is in localStorage and the value in the cache
stored(st, key, value) ==
    [localStorage |-> setItem(st.localStorage, getKey(key), JSON_stringify(value)),
     cache |-> setItem(st.cache, key, value)]

\* the retry of Storage.set after cleanup left c
retry(c, key, value) ==
    IF quotaExceeded(c.storage.localStorage, getKey(key), JSON_stringify(value))
    THEN [c EXCEPT !.resolved = FALSE]
    ELSE [c EXCEPT !.storage = stored(c.storage, key, value)]

\* Storage.set(key, value): the ways the call can end
Storage_set(st, key, value) ==
    IF ~quotaExceeded(st.localStorage, getKey(key), JSON_stringify(value))
    THEN {[storage |-> stored(st, key, value), emitted |-> changedEvents(key),
           resolved |-> TRUE]}
    ELSE {retry(c, key, value) : c \in Storage_cleanup(calling(st))}

\* Storage.setMultiple(data) from entry i on; a set that rejects is noted and
\* passed over
RECURSIVE setMultiple(_, _, _)
setMultiple(r, data, i) ==
    IF i > Len(data) THEN {r}
    ELSE UNION {setMultiple([storage |-> o.storage, emitted |-> r.emitted \o o.emitted,
                             resolved |-> TRUE], data, i + 1) :
                  o \in Storage_set(r.storage, data[i].key, data[i].value)}

\* Storage.import(jsonString, merge), data being the entries of importData.data
Storage_import(st, data, merge) ==
    setMultiple(IF merge THEN calling(st) ELSE Storage_clear(calling(st)), data, 1)

----------------------------------------------------------------------------
(* The font style *)

fontStyleId == <<"enhanced-font-style">>

\* this.fonts.has(fontName)
hasFont(S, fontName) == \E font \in S.ext.fonts : font.name = fontName

\* FontManager.getFont(fontName), for a font that is there
getFont(S, fontName) == CHOOSE font \in S.ext.fonts : font.name = fontName

\* a value of the FontManager as Storage holds it: it has no timestamp and is
\* small against the quota
plain(data) == [type |-> "plain", data |-> data, size |-> 1, timestamp |-> 0]

\* await this.storage.set(key, data) in the FontManager
storageSet(S, key, data) ==
    [S EXCEPT !.storage = (CHOOSE o \in Storage_set(@, key, plain(data)) : TRUE).storage]

\* FontManager.clearAppliedFont: document.getElementById gives the first
\* element with the id, and that one is removed
clearAppliedFont(doc) ==
    LET I == {i \in 1..Len(doc.head) : doc.head[i].id = fontStyleId}
    IN  IF I = {} THEN doc ELSE removeStyles(doc, {doc.head[Min(I)].uid})

\* FontManager.applyFont(font): a <style> with the id, not marked and not
\* tracked, holding font.css or the css generated from url and family
FontManager_applyFont(S, font) ==
    IF ~S.ext.fontEnabled THEN S
    ELSE [S EXCEPT !.document =
            appendStyle(clearAppliedFont(@), fontStyleId,
                        IF font.css # "" THEN <<font.css>>
                        ELSE (IF font.url # ""
                              THEN <<"@import url(\"", font.url, "\");\n">> ELSE <<>>)
                             \o (IF font.fontFamily # ""
                                 THEN <<"body { font-family: \"", font.fontFamily,
                                        "\" !important; }">>
                                 ELSE <<>>),
                        FALSE)]

\* EnhancedCustomCSSPlus.applyFont(fontName)
applyFont(S, fontName) ==
    IF ~hasFont(S, fontName) THEN S
    ELSE applyCSS(S, <<"@import url(\"", getFont(S, fontName).url, "\"); body, ... { font-family: '",
                       getFont(S, fontName).fontFamily, "', sans-serif !important; }">>,
                  fontStyleId)

\* FontManager.setCurrentFont(fontName); the fontChanged event it emits is
\* handled by applyFont of index.js
setCurrentFont(S, fontName) ==
    IF ~S.ext.fontEnabled THEN S
    ELSE IF ~hasFont(S, fontName) THEN S
    ELSE applyFont(FontManager_applyFont(
                       storageSet([S EXCEPT !.ext.currentFont = fontName],
                                  "currentFont", fontName),
                       getFont(S, fontName)),
                   fontName)

\* what FontManager.setCurrentFont(fontName) returns
setCurrentFont_returns(S, fontName) == S.ext.fontEnabled /\ hasFont(S, fontName)

\* FontManager.setFontEnabled(enabled)
setFontEnabled(S, enabled) ==
    IF ~enabled
    THEN [storageSet(S, "fontEnabled", FALSE)
            EXCEPT !.ext.fontEnabled = FALSE, !.document = clearAppliedFont(@)]
    ELSE IF S.ext.currentFont # Null /\ hasFont(S, S.ext.currentFont)
    THEN FontManager_applyFont([storageSet(S, "fontEnabled", TRUE)
                                   EXCEPT !.ext.fontEnabled = TRUE],
                               getFont(S, S.ext.currentFont))
    ELSE [storageSet(S, "fontEnabled", TRUE) EXCEPT !.ext.fontEnabled = TRUE]

\* FontManager.saveFonts
saveFonts(S) ==
    storageSet(S, "fonts",
               [fonts |-> S.ext.fonts, tags |-> S.ext.tags,
                currentFont |-> S.ext.currentFont])

\* FontManager.updateTagsList: the tags of the fonts in the map
updateTagsList(fontMap) == UNION {font.tags : font \in fontMap}

\* this.fonts.set(font.name, font)
fontsSet(fontMap, font) == {x \in fontMap : x.name # font.name} \cup {font}

\* FontManager.addFont(fontData), fontData an object
addFont(S, fontData) ==
    IF hasFont(S, fontData.name) THEN S
    ELSE saveFonts([S EXCEPT !.ext.fonts = fontsSet(@, fontData),
                             !.ext.tags = @ \cup fontData.tags])

\* { ...font, ...updates }, for updates that hold a name, tags, both or neither
merged(font, updates) ==
    [font EXCEPT !.name = IF updates.hasName THEN updates.name ELSE @,
                 !.tags = IF updates.hasTags THEN updates.tags ELSE @]

\* FontManager.updateFont(fontName, updates)
updateFont(S, fontName, updates) ==
    IF ~hasFont(S, fontName) THEN S
    ELSE saveFonts(
           [S EXCEPT
              !.ext.fonts =
                  fontsSet({x \in @ : x.name # fontName},
                           merged(getFont(S, fontName), updates)),
              !.ext.currentFont =
                  IF updates.hasName /\ updates.name # fontName /\ @ = fontName
                  THEN updates.name ELSE @,
              !.ext.tags =
                  IF updates.hasTags
                  THEN updateTagsList(
                          fontsSet({x \in S.ext.fonts : x.name # fontName},
                                   merged(getFont(S, fontName), updates)))
                  ELSE @])

\* FontManager.removeFont(fontName); the listener of fontChanged returns at
\* once for the name null
removeFont(S, fontName) ==
    IF ~hasFont(S, fontName) THEN S
    ELSE saveFonts(
           [S EXCEPT
              !.ext.fonts = {x \in @ : x.name # fontName},
              !.ext.currentFont = IF @ = fontName THEN Null ELSE @,
              !.document = IF S.ext.currentFont = fontName
                           THEN clearAppliedFont(@) ELSE @,
              !.ext.tags = updateTagsList({x \in S.ext.fonts : x.name # fontName})])

\* FontManager.deleteTag(tagToDelete)
deleteTag(S, tagToDelete) ==
    IF tagToDelete \notin S.ext.tags THEN S
    ELSE IF \E font \in S.ext.fonts : tagToDelete \in font.tags
    THEN saveFonts(
           [S EXCEPT
              !.ext.fonts = {[font EXCEPT !.tags = @ \ {tagToDelete}] : font \in @},
              !.ext.tags = @ \ {tagToDelete}])
    ELSE [S EXCEPT !.ext.tags = @ \ {tagToDelete}]

\* the forEach of importFonts over data.fonts, from entry i on
RECURSIVE importEach(_, _, _, _)
importEach(S, list, merge, i) ==
    IF i > Len(list) THEN S
    ELSE IF merge /\ hasFont(S, list[i].name) THEN importEach(S, list, merge, i + 1)
    ELSE importEach([S EXCEPT !.ext.fonts = fontsSet(@, list[i]),
                              !.ext.tags = @ \cup list[i].tags],
                    list, merge, i + 1)

\* importFonts after the forEach: the current font and the switch of the data
importSelection(S, data) ==
    [S EXCEPT !.ext.currentFont =
                  IF data.currentFont # Null /\ hasFont(S, data.currentFont)
                  THEN data.currentFont ELSE @,
              !.ext.fontEnabled = IF data.hasFontEnabled THEN data.fontEnabled ELSE @]

\* FontManager.importFonts(jsonData, merge), data being the parsed jsonData
importFonts(S, data, merge) ==
    saveFonts(
      IF data.hasFontEnabled
      THEN storageSet(
             importSelection(
               importEach(IF merge THEN S
                          ELSE [S EXCEPT !.ext.fonts = {}, !.ext.tags = {}],
                          data.fonts, merge, 1),
               data),
             "fontEnabled", data.fontEnabled)
      ELSE importSelection(
             importEach(IF merge THEN S
                        ELSE [S EXCEPT !.ext.fonts = {}, !.ext.tags = {}],
                        data.fonts, merge, 1),
             data))

\* FontManager.loadFonts
loadFonts(S) ==
    IF ~Storage_get(S.storage, "fonts").found THEN S
    ELSE [S EXCEPT
            !.ext.fonts = Storage_get(S.storage, "fonts").value.data.fonts,
            !.ext.tags = Storage_get(S.storage, "fonts").value.data.tags,
            !.ext.currentFont =
                IF Storage_get(S.storage, "fonts").value.data.currentFont # Null
                THEN Storage_get(S.storage, "fonts").value.data.currentFont
                ELSE @]

\* FontManager.init after loadFonts: the saved switch
loadFontEnabled(S) ==
    IF Storage_get(S.storage, "fontEnabled").found
    THEN [S EXCEPT !.ext.fontEnabled = Storage_get(S.storage, "fontEnabled").value.data]
    ELSE S

\* FontManager.init after the switch: the saved current font
loadCurrentFont(S) ==
    IF /\ Storage_get(S.storage, "currentFont").found
       /\ hasFont(S, Storage_get(S.storage, "currentFont").value.data)
    THEN FontManager_applyFont(
           [S EXCEPT !.ext.currentFont = Storage_get(S.storage, "currentFont").value.data],
           getFont(S, Storage_get(S.storage, "currentFont").value.data))
    ELSE S

\* FontManager.init
FontManager_init(S) == loadCurrentFont(loadFontEnabled(loadFonts(S)))

----------------------------------------------------------------------------
(* The host handlers *)

\* the state the handlers read, and the state they leave
Here ==
    [settings |-> settings, ext |-> ext, core |-> core, document |-> document,
     out |-> out, storage |-> storage]

Becomes(S) ==
    /\ settings' = S.settings
    /\ ext' = S.ext
    /\ core' = S.core
    /\ document' = S.document
    /\ out' = S.out
    /\ storage' = S.storage

\* the number of processing passes so far
PassNo(S) == IF S.out.fn = "none" THEN 0 ELSE S.out.pass

\* whether executeAddCommands leaves by an exception
throws(commands) == firstThrow(commands) <= Len(commands)

\* the commands of a pass, when there are any
runCommands(S, commands, legacy, pass) ==
    IF Len(commands) > 0 THEN executeAddCommands(S, commands, legacy, pass) ELSE S

\* the stylesheet of a pass, when it is not empty
injectCss(S, css) ==
    IF css # <<>> THEN applyCSS(S, css, mainCustomCss) ELSE S

\* out after a pass of handler fn; a script has no effect on the state held here
logPass(S, fn, pass, content, css, javascript, commands, scriptRan, threw) ==
    [S EXCEPT !.out =
        [fn |-> fn, pass |-> pass, arg |-> content, css |-> css,
         javascript |-> javascript, commands |-> commands,
         scriptRan |-> scriptRan, threw |-> threw]]

\* a variant that runs the commands before it injects the stylesheet
applyResult_spawnFirst(S, result, pass) ==
    injectCss(runCommands(S, result.addCommands, FALSE, pass), result.css)

\* handleCSSChange from "if (result.css)" on: inject the stylesheet, run the
\* script, execute the commands
applyResult(S, result, pass) ==
    runCommands(injectCss(S, result.css), result.addCommands, FALSE, pass)

\* handleCSSChange once process returned result
cssPass(S, content, result, pass) ==
    logPass(applyResult(S, result, pass), "handleCSSChange", pass, content,
            result.css, result.javascript, result.addCommands,
            result.javascript # <<>>, throws(result.addCommands))

\* EnhancedCustomCSSPlus.handleCSSChange(content)
handleCSSChange(S, content) ==
    IF ~S.settings.enabled THEN S
    ELSE IF content = S.ext.lastProcessedContent THEN S
    ELSE cssPass([S EXCEPT !.ext.currentCSSContent = content,
                           !.ext.lastProcessedContent = content],
                 content, process(content), PassNo(S) + 1)

\* the second half of applyCurrentConfiguration, reached with state S1 unless
\* handleCSSChange threw: the current font is applied
applyCurrentFont(S, S1, value) ==
    IF value # <<>> /\ S.settings.enabled /\ S1.out.threw THEN S1
    ELSE IF S1.ext.currentFont # Null /\ hasFont(S1, S1.ext.currentFont)
    THEN applyFont(S1, S1.ext.currentFont)
    ELSE S1

\* the first half of applyCurrentConfiguration: the textarea value is
\* processed again
applyCurrentCSS(S, value) ==
    IF value # <<>>
    THEN handleCSSChange([S EXCEPT !.ext.lastProcessedContent = Null], value)
    ELSE S

\* EnhancedCustomCSSPlus.applyCurrentConfiguration with textarea.value = value
applyCurrentConfiguration(S, value) ==
    applyCurrentFont(S, applyCurrentCSS(S, value), value)

\* handleCustomCSSChange from "if (css)" on, with processedCSS computed
legacyApply(S, css, processedCSS, pass) ==
    IF css # <<>>
    THEN runCommands(legacyApplyCSS(S, processedCSS.css), processedCSS.addCommands,
                     TRUE, pass)
    ELSE S

\* handleCustomCSSChange once parseContent returned parsed; the script runs
\* last, unless executeAddCommands threw
legacyParsed(S, content, parsed, processedCSS, pass) ==
    logPass(legacyApply(S, parsed.css, processedCSS, pass), "handleCustomCSSChange",
            pass, content, processedCSS.css, parsed.javascript,
            processedCSS.addCommands,
            parsed.javascript # <<>>
                /\ ~(parsed.css # <<>> /\ throws(processedCSS.addCommands)),
            parsed.css # <<>> /\ throws(processedCSS.addCommands))

\* handleCustomCSSChange after clearAddedContent()
legacyPass(S, content, css, javascript, pass) ==
    IF content = <<>> THEN S
    ELSE legacyParsed(S, content, [css |-> css, javascript |-> javascript],
                      processCSSAddSyntax(css), pass)

\* handleCustomCSSChange of the legacy script with event.target.value = content
handleCustomCSSChange(S, content) ==
    IF ~S.settings.enabled THEN S
    ELSE legacyPass(clearAddedContent([S EXCEPT !.ext.currentCSSContent = content]),
                    content, parseContent(content).css,
                    parseContent(content).javascript, PassNo(S) + 1)

----------------------------------------------------------------------------
(* The extension on a page: textarea edits and the enable switch *)

selD == <<".","d">>
sColorRed == <<"{","c","o","l","o","r",":","r","e","d","}">>
sBang == <<"!">>

\* .c{@add: t "hi" top-1}
contentText == fragSelector \o sOpenBrace \o fragText \o sCloseBrace

\* .d{@add: d "url(u)" 9x9}
contentImage == selD \o sOpenBrace \o fragImage \o sCloseBrace

\* .c{color:red}
contentPlain == fragSelector \o sColorRed

\* a rule with a selector that is none, between two rules with directives
contentBadSelector ==
    contentText \o sBang \o sOpenBrace \o fragText \o sCloseBrace \o contentImage

\* .d{@add: d "url(u)"}
contentNoSize ==
    selD \o sOpenBrace \o SubSeq(fragImage, 1, Len(fragImage) - 4) \o sCloseBrace

\* the values the textarea takes
Contents ==
    {<<>>, contentText, contentImage, contentPlain, fragScript, contentBadSelector,
     ExampleText, contentNoSize}

Init ==
    /\ text = <<>>
    /\ nfrag = 0
    /\ out = NoResult
    /\ \E v \in {"modular", "legacy"} : constructed(v)

\* the input listener of index.js on an edit of the textarea to one of the
\* values C, as one of at most bound events
InputOf(C, bound) ==
    /\ variant = "modular"
    /\ nfrag < bound
    /\ \E c \in C \ {text} :
          /\ text' = c
          /\ Becomes(handleCSSChange(Here, c))
    /\ nfrag' = nfrag + 1
    /\ UNCHANGED variant

TextareaInput == InputOf(Contents, MaxEvents)

\* the input listener of the legacy script on an edit of the textarea
LegacyTextareaInput ==
    /\ variant = "legacy"
    /\ nfrag < MaxEvents
    /\ \E c \in Contents \ {text} :
          /\ text' = c
          /\ Becomes(handleCustomCSSChange(Here, c))
    /\ nfrag' = nfrag + 1
    /\ UNCHANGED variant

\* the change listener of the enable checkbox in ui.js, as one of at most
\* bound events
ToggleWithin(bound) ==
    /\ variant = "modular"
    /\ nfrag < bound
    /\ LET S == [Here EXCEPT !.settings.enabled = ~@]
       IN  Becomes(IF ~S.settings.enabled THEN clearAll(S)
                   ELSE applyCurrentConfiguration(S, text))
    /\ nfrag' = nfrag + 1
    /\ UNCHANGED <<text, variant>>

ToggleEnabled == ToggleWithin(MaxEvents)

\* the change listener of the enable checkbox in the legacy script
LegacyToggleEnabled ==
    /\ variant = "legacy"
    /\ nfrag < MaxEvents
    /\ LET S == [Here EXCEPT !.settings.enabled = ~@]
       IN  Becomes(IF ~S.settings.enabled THEN clearAddedContent(S)
                   ELSE handleCustomCSSChange(S, text))
    /\ nfrag' = nfrag + 1
    /\ UNCHANGED <<text, variant>>

Next ==
    \/ TextareaInput
    \/ LegacyTextareaInput
    \/ ToggleEnabled
    \/ LegacyToggleEnabled

Spec == Init /\ [][Next]_vars

----------------------------------------------------------------------------
(* The interface of CoreModule and of the font manager, called in any order *)

sXY == <<"x"," ","y">>
selN == <<".","n">>
cssA == <<"a","{","}">>
cssB == <<"b","{","}">>

\* the values of options.parent and options.style in the calls considered
Parents == {[kind |-> "none"], [kind |-> "selector", sel |-> fragSelector],
            [kind |-> "selector", sel |-> sBang]}

Styles == {EmptyStyle, [position |-> sAbsolute]}

\* out after a call of fn
called(S, fn) == [S EXCEPT !.out = [fn |-> fn, pass |-> PassNo(S)]]

InitCore ==
    /\ text = <<>>
    /\ nfrag = 0
    /\ out = NoResult
    /\ \E v \in {"modular", "early"} : constructed(v)

\* core.createElement('div', options)
CallCreateElement ==
    /\ nfrag < MaxCalls
    /\ \E parent \in Parents, style \in Styles :
          Becomes(called(createElement(Here, "div",
                                       [class |-> sX, text |-> <<>>, style |-> style,
                                        parent |-> parent],
                                       variant = "early"),
                         "createElement"))
    /\ nfrag' = nfrag + 1
    /\ UNCHANGED <<text, variant>>

\* core.addElement(parentSelector, 'div', options)
CallAddElement ==
    /\ nfrag < MaxCalls
    /\ \E parentSelector \in {selD, selN}, style \in Styles :
          Becomes(called(addElement(Here, parentSelector, "div",
                                    [class |-> sX, text |-> <<>>, style |-> style,
                                     parent |-> [kind |-> "none"]],
                                    variant = "early"),
                         "addElement"))
    /\ nfrag' = nfrag + 1
    /\ UNCHANGED <<text, variant>>

\* core.addClass(selector, className)
CallAddClass ==
    /\ nfrag < MaxCalls
    /\ \E selector \in {fragSelector, selD}, className \in {sX, sXY} :
          Becomes(called(addClass(Here, selector, className, variant = "early"),
                         "addClass"))
    /\ nfrag' = nfrag + 1
    /\ UNCHANGED <<text, variant>>

\* core.applyCSS(css, id), or core.applyCSS(css); Date.now() is the time of
\* the call before, or later
CallApplyCSS ==
    /\ nfrag < MaxCalls
    /\ \E css \in {cssA, cssB}, id \in {Null, mainCustomCss}, later \in BOOLEAN :
          IF variant = "early"
          THEN LET now == document.now + (IF later THEN 1 ELSE 0)
               IN  Becomes(called(early_applyCSS([Here EXCEPT !.document.now = now],
                                                 css, id, now),
                                  "applyCSS"))
          ELSE /\ ~later
               /\ Becomes(called(applyCSS(Here, css, id), "applyCSS"))
    /\ nfrag' = nfrag + 1
    /\ UNCHANGED <<text, variant>>

\* cssProcessor.executeAddCommands(commands) for the commands of a text
CallExecuteAddCommands ==
    /\ nfrag < MaxCalls
    /\ \E content \in {contentText, contentImage} :
          Becomes(called(executeAddCommands(Here, process(content).addCommands,
                                            FALSE, 0),
                         "executeAddCommands"))
    /\ nfrag' = nfrag + 1
    /\ UNCHANGED <<text, variant>>

\* core.clearAll()
CallClearAll ==
    /\ nfrag < MaxCalls
    /\ Becomes(called(IF variant = "early" THEN early_clearAll(Here) ELSE clearAll(Here),
                      "clearAll"))
    /\ nfrag' = nfrag + 1
    /\ UNCHANGED <<text, variant>>

\* fontManager.setCurrentFont(fontName)
CallSetCurrentFont ==
    /\ variant = "modular"
    /\ nfrag < MaxCalls
    /\ \E font \in fonts : Becomes(called(setCurrentFont(Here, font.name), "setCurrentFont"))
    /\ nfrag' = nfrag + 1
    /\ UNCHANGED <<text, variant>>

\* fontManager.setFontEnabled(enabled)
CallSetFontEnabled ==
    /\ variant = "modular"
    /\ nfrag < MaxCalls
    /\ \E enabled \in BOOLEAN :
          Becomes(called(setFontEnabled(Here, enabled), "setFontEnabled"))
    /\ nfrag' = nfrag + 1
    /\ UNCHANGED <<text, variant>>

NextCore ==
    \/ CallCreateElement
    \/ CallAddElement
    \/ CallAddClass
    \/ CallApplyCSS
    \/ CallExecuteAddCommands
    \/ CallClearAll
    \/ CallSetCurrentFont
    \/ CallSetFontEnabled

SpecCore == InitCore /\ [][NextCore]_vars

----------------------------------------------------------------------------
(* Theme changes and their timers, in the modular version.  Time is counted *)
(* in milliseconds and passes in steps of 100; a timeout that is due runs   *)
(* before time passes on.                                                   *)

\* setTimeout(fn, delay)
setTimeout(S, fn, delay) ==
    [S EXCEPT
       !.document.timers =
           @ \cup {[id |-> S.document.nextTimer, fn |-> fn,
                    due |-> S.document.now + delay]},
       !.document.nextTimer = @ + 1]

\* clearTimeout(id)
clearTimeout(S, id) ==
    [S EXCEPT !.document.timers = {t \in @ : t.id # id}]

\* a variant that leaves the pending timeout in place
handlePossibleThemeChange_noClear(S) ==
    [setTimeout(S, "themeChangeTimeout", 300)
        EXCEPT !.ext.themeChangeTimeout = S.document.nextTimer,
               !.ext.lastTrigger = S.document.now]

\* EnhancedCustomCSSPlus.handlePossibleThemeChange: the pending timeout, if
\* any, is dropped and a new one set; lastTrigger remembers when
handlePossibleThemeChange(S) ==
    [setTimeout(IF S.ext.themeChangeTimeout # 0
                THEN clearTimeout(S, S.ext.themeChangeTimeout) ELSE S,
                "themeChangeTimeout", 300)
        EXCEPT !.ext.themeChangeTimeout = S.document.nextTimer,
               !.ext.lastTrigger = S.document.now]

\* the callback of themeChangeTimeout
themeChangeTimeout(S) ==
    IF S.settings.autoCleanOnThemeChange /\ S.settings.enabled
    THEN setTimeout([clearAll(S) EXCEPT !.ext.lastProcessedContent = Null,
                                        !.out = [fn |-> "themeChangeTimeout",
                                                 pass |-> PassNo(S), cleared |-> TRUE]],
                    "reapply", 200)
    ELSE [S EXCEPT !.out = [fn |-> "themeChangeTimeout", pass |-> PassNo(S),
                            cleared |-> FALSE]]

\* EnhancedCustomCSSPlus.handleThemeChange(newTheme)
handleThemeChange(S, newTheme) ==
    IF newTheme = S.ext.currentTheme THEN S
    ELSE IF S.settings.autoCleanOnThemeChange /\ S.settings.enabled
    THEN setTimeout([clearAll(S) EXCEPT !.ext.currentTheme = newTheme,
                                        !.ext.lastProcessedContent = Null],
                    "themeReapply", 100)
    ELSE [S EXCEPT !.ext.currentTheme = newTheme]

\* cleanTheme of the global API
cleanTheme(S) == setTimeout(clearAll(S), "themeReapply", 100)

\* the callback of timeout t; the textarea is the one already watched, so
\* watchCustomCSSTextarea finds nothing new
runTimeout(S, t, value) ==
    IF t.fn = "themeChangeTimeout" THEN themeChangeTimeout(S)
    ELSE applyCurrentConfiguration(S, value)

\* the timeouts that are due
dueTimers(doc) == {t \in doc.timers : t.due <= doc.now}

\* the texts typed while themes change
ThemeContents == {<<>>, contentText, contentPlain}

InitTheme ==
    /\ text = <<>>
    /\ nfrag = 0
    /\ out = NoResult
    /\ constructed("modular")

ThemeTextareaInput == InputOf(ThemeContents, MaxThemeEvents)

ThemeToggleEnabled == ToggleWithin(MaxThemeEvents)

\* a stylesheet link is added to or removed from head: watchStylesheets
StylesheetChanged ==
    /\ nfrag < MaxThemeEvents
    /\ Becomes(handlePossibleThemeChange(Here))
    /\ nfrag' = nfrag + 1
    /\ UNCHANGED <<text, variant>>

\* the change listener of the theme selector
ThemeSelected ==
    /\ nfrag < MaxThemeEvents
    /\ \E newTheme \in {<<"t1">>, <<"t2">>} : Becomes(handleThemeChange(Here, newTheme))
    /\ nfrag' = nfrag + 1
    /\ UNCHANGED <<text, variant>>

\* EnhancedCSS.cleanTheme()
CallCleanTheme ==
    /\ nfrag < MaxThemeEvents
    /\ Becomes(cleanTheme(Here))
    /\ nfrag' = nfrag + 1
    /\ UNCHANGED <<text, variant>>

\* EnhancedCSS.setFont(fontName)
CallSetFont ==
    /\ nfrag < MaxThemeEvents
    /\ Becomes(setCurrentFont(Here, <<"f">>))
    /\ nfrag' = nfrag + 1
    /\ UNCHANGED <<text, variant>>

\* a timeout that is due runs, the earliest first
TimeoutFires ==
    /\ \E t \in dueTimers(document) :
          /\ \A u \in dueTimers(document) : t.due < u.due \/ (t.due = u.due /\ t.id <= u.id)
          /\ Becomes(runTimeout([Here EXCEPT !.document.timers = @ \ {t},
                                            !.document.lastFired = t.id],
                                t, text))
    /\ UNCHANGED <<text, nfrag, variant>>

\* 100 ms pass
Tick ==
    /\ dueTimers(document) = {}
    /\ document.now < 100 * MaxTicks
    /\ document' = [document EXCEPT !.now = @ + 100]
    /\ UNCHANGED <<text, nfrag, out, variant, settings, ext, core, storage>>

NextTheme ==
    \/ ThemeTextareaInput
    \/ ThemeToggleEnabled
    \/ StylesheetChanged
    \/ ThemeSelected
    \/ CallCleanTheme
    \/ CallSetFont
    \/ TimeoutFires
    \/ Tick

SpecTheme == InitTheme /\ [][NextTheme]_vars

----------------------------------------------------------------------------
(* The interface of Storage: one instance, no other writer of localStorage *)

StorageKeys == {"k1", "k2", "k3", "k4", "k5"}

\* the value null, an early small object and a later large one
valNull == [type |-> "null", size |-> 1, timestamp |-> 0]

valOld == [type |-> "object", size |-> 1, timestamp |-> 1]

valNew == [type |-> "object", size |-> 3, timestamp |-> 2]

StorageValues == {valNull, valOld, valNew}

\* the data of two exports
dataFive ==
    <<[key |-> "k1", value |-> valOld], [key |-> "k2", value |-> valOld],
      [key |-> "k3", value |-> valOld], [key |-> "k4", value |-> valOld],
      [key |-> "k5", value |-> valOld]>>

dataTwo == <<[key |-> "k1", value |-> valNew], [key |-> "k2", value |-> valNull]>>

InitStorage ==
    /\ text = <<>>
    /\ nfrag = 0
    /\ out = NoResult
    /\ constructed("modular")

\* storage.set(key, value)
CallSet ==
    /\ \E key \in StorageKeys, value \in StorageValues :
          \E o \in Storage_set(storage, key, value) :
             /\ storage' = o.storage
             /\ out' = [fn |-> "set", key |-> key, resolved |-> o.resolved,
                        emitted |-> o.emitted]
    /\ UNCHANGED <<text, nfrag, variant, settings, ext, core, document>>

\* storage.get(key)
CallGet ==
    /\ \E key \in StorageKeys :
          /\ storage' = Storage_get(storage, key).storage
          /\ out' = [fn |-> "get", key |-> key,
                     resolved |-> Storage_get(storage, key).found, emitted |-> <<>>]
    /\ UNCHANGED <<text, nfrag, variant, settings, ext, core, document>>

\* storage.remove(key)
CallRemove ==
    /\ \E key \in StorageKeys :
          /\ storage' = Storage_remove(calling(storage), key).storage
          /\ out' = [fn |-> "remove", key |-> key, resolved |-> TRUE,
                     emitted |-> removedEvents(key)]
    /\ UNCHANGED <<text, nfrag, variant, settings, ext, core, document>>

\* storage.clear()
CallClear ==
    /\ storage' = Storage_clear(calling(storage)).storage
    /\ out' = [fn |-> "clear", key |-> "", resolved |-> TRUE,
               emitted |-> Storage_clear(calling(storage)).emitted]
    /\ UNCHANGED <<text, nfrag, variant, settings, ext, core, document>>

\* storage.cleanup()
CallCleanup ==
    /\ \E c \in Storage_cleanup(calling(storage)) :
          /\ storage' = c.storage
          /\ out' = [fn |-> "cleanup", key |-> "", resolved |-> TRUE,
                     emitted |-> c.emitted]
    /\ UNCHANGED <<text, nfrag, variant, settings, ext, core, document>>

\* storage.import(jsonString, merge)
CallImport ==
    /\ \E data \in {dataFive, dataTwo}, merge \in BOOLEAN :
          \E r \in Storage_import(storage, data, merge) :
             /\ storage' = r.storage
             /\ out' = [fn |-> "import", key |-> "", resolved |-> TRUE,
                        emitted |-> r.emitted]
    /\ UNCHANGED <<text, nfrag, variant, settings, ext, core, document>>

NextStorage ==
    \/ CallSet
    \/ CallGet
    \/ CallRemove
    \/ CallClear
    \/ CallCleanup
    \/ CallImport

SpecStorage == InitStorage /\ [][NextStorage]_vars

----------------------------------------------------------------------------
(* The interface of the FontManager, with page loads and the host's re-apply *)

FontNames == {<<"f">>, <<"g">>}

TagNames == {"a", "b"}

\* font f with the tags T
fontF(T) == [name |-> <<"f">>, url |-> "u", fontFamily |-> "F", css |-> "", tags |-> T]

\* font g with the tags T
fontG(T) ==
    [name |-> <<"g">>, url |-> "", fontFamily |-> "G", css |-> "body{font-family:G}",
     tags |-> T]

FontInputs == {fontF({}), fontF({"a"}), fontG({"b"}), fontG({"a", "b"})}

\* updates with tags, and updates with a name
UpdateInputs ==
    {[hasName |-> FALSE, name |-> Null, hasTags |-> TRUE, tags |-> T] : T \in {{}, {"a"}}}
    \cup {[hasName |-> TRUE, name |-> n, hasTags |-> FALSE, tags |-> {}] : n \in FontNames}

\* an export with one font and no selection, and one made with a font selected
\* and the font feature off
ImportInputs ==
    {[fonts |-> <<fontG({"b"})>>, currentFont |-> Null,
      hasFontEnabled |-> FALSE, fontEnabled |-> TRUE],
     [fonts |-> <<fontF({"a"})>>, currentFont |-> <<"f">>,
      hasFontEnabled |-> TRUE, fontEnabled |-> FALSE]}

\* EnhancedCustomCSSPlus.init on a new page over what localStorage holds:
\* the constructors, FontManager.init, and the initial configuration
init(S, value) ==
    applyCurrentConfiguration(
        FontManager_init([S EXCEPT !.ext = NewExtension,
                                   !.core = EmptyCore,
                                   !.document = EmptyDocument,
                                   !.storage = loadCache(@.localStorage)]),
        value)

InitFont ==
    /\ text = <<>>
    /\ nfrag = 0
    /\ out = NoResult
    /\ variant = "modular"
    /\ settings = [enabled |-> TRUE, autoCleanOnThemeChange |-> TRUE]
    /\ ext = NewExtension
    /\ core = EmptyCore
    /\ document = EmptyDocument
    /\ storage = EmptyStorage

\* fontManager.addFont(fontData)
CallAddFont ==
    /\ nfrag < MaxCalls
    /\ \E fontData \in FontInputs : Becomes(called(addFont(Here, fontData), "addFont"))
    /\ nfrag' = nfrag + 1
    /\ UNCHANGED <<text, variant>>

\* fontManager.updateFont(fontName, updates)
CallUpdateFont ==
    /\ nfrag < MaxCalls
    /\ \E fontName \in FontNames, updates \in UpdateInputs :
          Becomes(called(updateFont(Here, fontName, updates), "updateFont"))
    /\ nfrag' = nfrag + 1
    /\ UNCHANGED <<text, variant>>

\* fontManager.removeFont(fontName)
CallRemoveFont ==
    /\ nfrag < MaxCalls
    /\ \E fontName \in FontNames :
          Becomes(called(removeFont(Here, fontName), "removeFont"))
    /\ nfrag' = nfrag + 1
    /\ UNCHANGED <<text, variant>>

\* fontManager.deleteTag(tagToDelete)
CallDeleteTag ==
    /\ nfrag < MaxCalls
    /\ \E tagToDelete \in TagNames :
          Becomes(called(deleteTag(Here, tagToDelete), "deleteTag"))
    /\ nfrag' = nfrag + 1
    /\ UNCHANGED <<text, variant>>

\* fontManager.importFonts(jsonData, merge)
CallImportFonts ==
    /\ nfrag < MaxCalls
    /\ \E data \in ImportInputs, merge \in BOOLEAN :
          Becomes(called(importFonts(Here, data, merge), "importFonts"))
    /\ nfrag' = nfrag + 1
    /\ UNCHANGED <<text, variant>>

\* the page is loaded again
PageLoad ==
    /\ nfrag < MaxCalls
    /\ Becomes(called(init(Here, text), "init"))
    /\ nfrag' = nfrag + 1
    /\ UNCHANGED <<text, variant>>

\* the host applies the current configuration again
Reapply ==
    /\ nfrag < MaxCalls
    /\ Becomes(called(applyCurrentConfiguration(Here, text), "applyCurrentConfiguration"))
    /\ nfrag' = nfrag + 1
    /\ UNCHANGED <<text, variant>>

NextFont ==
    \/ CallAddFont
    \/ CallUpdateFont
    \/ CallRemoveFont
    \/ CallSetCurrentFont
    \/ CallSetFontEnabled
    \/ CallDeleteTag
    \/ CallImportFonts
    \/ PageLoad
    \/ Reapply

SpecFont == InitFont /\ [][NextFont]_vars

----------------------------------------------------------------------------
(* Claims about style injection and the bulk clear *)

\* the attached <style> elements with attribute id
StylesWithId(id) == {i \in 1..Len(document.head) : document.head[i].id = id}

\* C17: whatever styles were injected, by core.applyCSS with an id, by
\* applyFont of index.js, by FontManager.applyFont, and whatever was cleared,
\* at most one attached <style> has a given id, and it holds the css of the
\* latest injection under that id
C17_OneStylePerId ==
    \A p \in document.injected :
        p.id # Null =>
            /\ Cardinality(StylesWithId(p.id)) <= 1
            /\ \A i \in StylesWithId(p.id) : document.head[i].css = p.css

\* C18: when clearAll has returned, no marked element and no marked <style>
\* is attached, the four trackers are empty and isClearing is false
C18_ClearAllLeavesNothing ==
    out.fn = "clearAll" =>
        /\ markedNodes(document) = {}
        /\ markedStyles(document) = {}
        /\ core.addedElements = {}
        /\ core.addedStyles = {}
        /\ core.addedClasses = {}
        /\ core.modifiedElements = {}
        /\ ~core.isClearing

\* C23: when clearAll of core.js has returned, every element has the inline
\* position and the classes it had before the extension touched it, in
\* whatever order addClass, addElement and executeAddCommands did so.
C23_ClearAllRestoresElements ==
    (out.fn = "clearAll" /\ variant = "modular") =>
        \A e \in Elements :
            /\ document.position[e] = EmptyDocument.position[e]
            /\ document.classList[e] = EmptyDocument.classList[e]

----------------------------------------------------------------------------
(* Claims about the passes *)

\* the decoration nodes attached to the page
AttachedNodes == UNION {childrenOf(document, e) : e \in Elements}

\* C4: after any sequence of CSS change events every anchor carries only
\* the decoration nodes of the most recent pass; the nodes of earlier passes
\* were removed before the pass ran.
C4_OnlyLatestPassNodes ==
    \A n \in AttachedNodes : n.pass = PassNo(Here)

\* C5: the commands of a pass are executed only after the stylesheet of
\* that pass was injected: every node of the latest pass was made while a
\* <style> element with the css of that pass was attached.
C5_SpawnAfterInject ==
    \A n \in AttachedNodes :
        n.pass = PassNo(Here) =>
            \E i \in 1..Len(n.sheets) : n.sheets[i] = out.css

C5_Witness ==
    /\ PassNo(Here) >= 2
    /\ \E n \in AttachedNodes :
          /\ n.pass = PassNo(Here)
          /\ \E i \in 1..Len(n.sheets) : n.sheets[i] = out.css

----------------------------------------------------------------------------
(* Claims about the command executor *)

\* the pass that the log o belongs to
PassOf(o) == IF o.fn = "none" THEN 0 ELSE o.pass

\* the step is a processing pass whose commands all ran
PassStep == PassOf(out') = PassOf(out) + 1 /\ ~out'.threw

\* the commands among cmds whose selector matches anchor e, in command order
CommandsOn(cmds, e) ==
    SelectSeq(cmds, LAMBDA c : e \in {querySelectorAll(c.selector)[i] :
                                        i \in 1..Len(querySelectorAll(c.selector))})

\* node nd was made for command cmd in pass pass, not before identity fresh
MadeFor(nd, cmd, pass, fresh, tracker) ==
    /\ nd.pass = pass
    /\ nd.uid >= fresh
    /\ nd.className = sEnhancedAdd \o cmd.className
    /\ nd.style.position = sAbsolute
    /\ nd.marker
    /\ nd.uid \in tracker.addedElements

\* the children ch of an anchor end with one node for each command of exp,
\* in order, and hold no other node of the pass
EndsWithNodesFor(ch, exp, pass, fresh, tracker) ==
    /\ Len(ch) >= Len(exp)
    /\ \A i \in 1..(Len(ch) - Len(exp)) : ch[i].pass # pass
    /\ \A i \in 1..Len(exp) :
          MadeFor(ch[Len(ch) - Len(exp) + i], exp[i], pass, fresh, tracker)

\* C13: a pass makes, for each command, exactly one new node per element that
\* the selector matches (none when nothing matches); every node is the last
\* child of its anchor when appended, has inline position absolute, carries
\* the marker and is in the cleanup tracker.
C13_OneNodePerMatchAppendedLast ==
    [][PassStep =>
          \A e \in Elements :
              EndsWithNodesFor(document'.children[e],
                               CommandsOn(out'.commands, e), PassOf(out'),
                               document.nextNode, core')]_vars

\* a pass put its node behind the node that an earlier pass left on the anchor
C13_Witness ==
    /\ out.fn = "handleCSSChange"
    /\ ~out.threw
    /\ \E e \in Elements :
          /\ Len(document.children[e]) >= 2
          /\ document.children[e][1].pass < out.pass
          /\ document.children[e][Len(document.children[e])].pass = out.pass

\* node n was made for the image command cmd of the latest pass
ImageNodeOf(n, cmd) ==
    /\ n.pass = PassOf(out)
    /\ n.tag = "div"
    /\ cmd.type = "image"
    /\ n.className = sEnhancedAdd \o cmd.className

\* C14: the node of an image command has an explicit width and height only
\* if the command has a size; for a command without size the executor sets
\* neither width nor height.
C14_NoSizeNoDimensions ==
    \A n \in AttachedNodes :
        \A k \in 1..Len(out.commands) :
            ImageNodeOf(n, out.commands[k]) =>
                /\ out.commands[k].size = Null =>
                      "width" \notin DOMAIN n.style /\ "height" \notin DOMAIN n.style
                /\ out.commands[k].size # Null =>
                      "width" \in DOMAIN n.style /\ "height" \in DOMAIN n.style

\* the commands that ran before a selector query threw
Executed(commands) == SubSeq(commands, 1, firstThrow(commands) - 1)

\* anchor e has neither an inline position nor one from the page
IsStatic(doc, e) == doc.position[e] = "" /\ pagePosition[e] = "static"

\* C15: a pass sets the inline position of an anchor to relative exactly
\* when one of its commands matches the anchor and the computed position of
\* the anchor is static then; every other anchor keeps its inline position,
\* so a second execution of a command does not change it again.
C15_RelativeOnlyWhenStatic ==
    [][PassOf(out') = PassOf(out) + 1 =>
          \A e \in Elements :
              document'.position[e] =
                  IF CommandsOn(Executed(out'.commands), e) # <<>> /\ IsStatic(document, e)
                  THEN "relative"
                  ELSE document.position[e]]_vars

\* commands ran twice on a static anchor and on an anchor that the page
\* positions itself
C15_Witness ==
    /\ PassOf(out) >= 2
    /\ document.position["e1"] = "relative"
    /\ document.position["e2"] = ""
    /\ \E n \in childrenOf(document, "e1") : n.pass = PassOf(out)
    /\ \E n \in childrenOf(document, "e2") : n.pass = PassOf(out)

\* C16: when the selector of the k-th command is no selector, the error
\* leaves executeAddCommands: the nodes of the commands before k are in the
\* document and in the tracker, and no command from k on has made a node.
C16_ThrowKeepsEarlierStopsLater ==
    [][(PassOf(out') = PassOf(out) + 1 /\ out'.threw) =>
          \A e \in Elements :
              EndsWithNodesFor(document'.children[e],
                               CommandsOn(Executed(out'.commands), e), PassOf(out'),
                               document.nextNode, core')]_vars

\* the second of three commands threw: the first has its nodes on the .c
\* anchors, the third has none on the .d anchor
C16_Witness ==
    /\ out.fn \in {"handleCSSChange", "handleCustomCSSChange"}
    /\ out.threw
    /\ Len(out.commands) = 3
    /\ firstThrow(out.commands) = 2
    /\ \E n \in childrenOf(document, "e1") : n.pass = out.pass
    /\ \A n \in childrenOf(document, "e3") : n.pass # out.pass

----------------------------------------------------------------------------
(* Claims about the handlers of the page *)

\* the attached <style> elements with id main-custom-css
MainStyles(doc) == {i \in 1..Len(doc.head) : doc.head[i].id = mainCustomCss}

\* the stylesheet main-custom-css of doc is css, and there is none when css
\* is empty
MainStyleIs(doc, css) ==
    IF css = <<>> THEN MainStyles(doc) = {}
    ELSE /\ Cardinality(MainStyles(doc)) = 1
         /\ \A i \in MainStyles(doc) : doc.head[i].css = css

\* C22: after each pass of handleCSSChange(content), which runs only while
\* the extension is enabled and content differs from the last processed one,
\* the stylesheet main-custom-css holds process(content).css, and none is
\* attached when that css is empty.
C22_MainStyleReflectsContent ==
    [][(PassStep /\ out'.fn = "handleCSSChange") =>
          MainStyleIs(document', process(out'.arg).css)]_vars

\* the identities of the attached <style> elements and decoration nodes
AttachedUids(doc) ==
    {doc.head[i].uid : i \in 1..Len(doc.head)}
        \cup UNION {{n.uid : n \in childrenOf(doc, e)} : e \in Elements}

\* C24: from the moment the extension is disabled until it is enabled again,
\* no stylesheet and no decoration node of the extension gets attached,
\* whichever callback runs: textarea input, a timeout set by a theme change
\* before the disable, or a font change.
C24_NothingAttachedWhileDisabled ==
    [][(~settings.enabled /\ ~settings'.enabled) =>
          AttachedUids(document') \subseteq AttachedUids(document)]_vars

\* the step runs the callback of a timeout set for fn
Fires(fn) ==
    /\ document'.lastFired # document.lastFired
    /\ \E t \in document.timers : t.id = document'.lastFired /\ t.fn = fn

\* the timeouts for fn that are pending in doc
Pending(doc, fn) == {t \in doc.timers : t.fn = fn}

\* C30 as stated: triggers of handlePossibleThemeChange less than 300 ms
\* apart end in one run of clearAll, 300 ms after the last of them; when
\* enabled and autoCleanOnThemeChange hold then, applyCurrentConfiguration is
\* scheduled exactly once, and when it runs the text of the textarea is
\* processed and applied again.
C30_DebouncedClearThenReapply ==
    [][/\ Fires("themeChangeTimeout") =>
            /\ Cardinality(Pending(document, "themeChangeTimeout")) = 1
            /\ document.now = ext.lastTrigger + 300
            /\ out'.fn = "themeChangeTimeout"
            /\ out'.cleared
            /\ (settings.enabled /\ settings.autoCleanOnThemeChange) =>
                  Cardinality(Pending(document', "reapply") \ Pending(document, "reapply")) = 1
       /\ (Fires("reapply") /\ text # <<>>) =>
            /\ out'.fn = "handleCSSChange"
            /\ PassOf(out') = PassOf(out) + 1
            /\ out'.arg = text]_vars

\* C30 as amended: the callback runs once for a burst, 300 ms after its last
\* trigger; it runs clearAll exactly when enabled and autoCleanOnThemeChange
\* hold then, and in that case schedules applyCurrentConfiguration once, 200
\* ms later; that call processes and applies the text of the textarea again
\* when the extension is enabled at that time.
C30_DebouncedClearWhenEnabled ==
    [][/\ Fires("themeChangeTimeout") =>
            /\ Cardinality(Pending(document, "themeChangeTimeout")) = 1
            /\ document.now = ext.lastTrigger + 300
            /\ out'.fn = "themeChangeTimeout"
            /\ out'.cleared <=> (settings.enabled /\ settings.autoCleanOnThemeChange)
            /\ out'.cleared =>
                  /\ Cardinality(Pending(document', "reapply") \ Pending(document, "reapply")) = 1
                  /\ \A t \in Pending(document', "reapply") \ Pending(document, "reapply") :
                        t.due = document.now + 200
            /\ ~out'.cleared => Pending(document', "reapply") = Pending(document, "reapply")
       /\ (Fires("reapply") /\ text # <<>> /\ settings.enabled) =>
            /\ out'.fn = "handleCSSChange"
            /\ PassOf(out') = PassOf(out) + 1
            /\ out'.arg = text]_vars

\* a text was typed, two triggers came 100 ms apart, the one timeout left
\* ran 300 ms after the second and cleared, and 200 ms later the text was
\* processed again
C30_Witness ==
    /\ ext.lastTrigger = 100
    /\ document.now = 600
    /\ document.lastFired = 3
    /\ out.fn = "handleCSSChange"
    /\ out.pass = 2
    /\ out.arg = text

----------------------------------------------------------------------------
(* Claims about Storage *)

\* C28: a key is in the cache exactly when has(key) is true, and get(key)
\* gives the value whose text localStorage holds, or nothing when it holds
\* none.
C28_CacheAgreesWithLocalStorage ==
    \A key \in StorageKeys :
       /\ key \in DOMAIN storage.cache <=> Storage_has(storage, key)
       /\ IF Storage_has(storage, key)
          THEN /\ Storage_get(storage, key).found
               /\ Storage_get(storage, key).value
                    = JSON_parse(storage.localStorage[getKey(key)])
          ELSE ~Storage_get(storage, key).found

\* whether an event of the name was emitted in the call that out records
Emitted(o, name) == \E i \in 1..Len(o.emitted) : o.emitted[i].event = name

\* C29: a set that rejects leaves localStorage and the cache as they were and
\* emits no changed event; a set that resolves has emitted changed and
\* changed:<key>.
C29_RejectedSetChangesNothing ==
    [][out'.fn = "set" =>
         IF out'.resolved
         THEN /\ Emitted(out', <<"changed">>)
              /\ Emitted(out', <<"changed:", out'.key>>)
         ELSE /\ storage' = storage
              /\ ~Emitted(out', <<"changed">>)]_vars

----------------------------------------------------------------------------
(* Claims about the FontManager *)

\* C25: currentFont is null or the name of a font in the fonts map.
C25_CurrentFontIsPresent ==
    ext.currentFont = Null \/ hasFont(Here, ext.currentFont)

\* the <style> elements with the id of the font style
FontStyles(doc) == {i \in 1..Len(doc.head) : doc.head[i].id = fontStyleId}

\* C26: while fontEnabled is false no <style id="enhanced-font-style"> is
\* attached, and setCurrentFont returns false and leaves currentFont as it is.
C26_NoFontStyleWhileDisabled ==
    ~ext.fontEnabled =>
       /\ FontStyles(document) = {}
       /\ \A fontName \in FontNames :
             /\ ~setCurrentFont_returns(Here, fontName)
             /\ setCurrentFont(Here, fontName).ext.currentFont = ext.currentFont

\* C27: the tags set is the union of the tags of the fonts in the map.
C27_TagsAreThoseOfTheFonts ==
    ext.tags = updateTagsList(ext.fonts)

====
